---- MODULE Spec2Model ----
(***************************************************************************)
(* Model of the movement-recording workflow of tabula-backend:             *)
(*   app/routers/movements.py  create_movement                             *)
(*   app/routers/websocket.py  ConnectionManager, websocket_endpoint       *)
(*   app/utils/validation.py   is_admin_user                               *)
(* The relational store is modelled as committed tables plus, per request, *)
(* the rows its open transaction has written (invisible until COMMIT).     *)
(***************************************************************************)
EXTENDS Integers, Sequences, FiniteSets, TLC

\* ------------------------------------------------------------------ bounds

\* Largest value the id sequence of table "movimientos" hands out.
MaxMovs == 2

\* Most rows the create handlers add to the tables, all tables together.
MaxAltas == 1

\* create_movement: `if len(movement_data.lineas) > 100`.
MAX_LINEAS == 100

\* ------------------------------------------------------------- Python data

\* Optional[T]: None is the empty tuple, a value x is <<x>>.
None == <<>>

Some(x) == <<x>>

\* Python truthiness of an Optional[date]: a date object is always truthy.
TruthyDate(d) == d # None

\* Python truthiness of an Optional[str]: None and "" are falsy.
TruthyStr(s) == s # None /\ s # Some("")

\* str.lower() on the role strings that occur in table "usuario".
Lower(r) ==
  CASE r = "Admin" -> "admin"
    [] r = "ADMIN" -> "admin"
    [] r = "Usuario" -> "usuario"
    [] OTHER -> r

\* set(l) for a Python list l.
SetOf(l) == { l[i] : i \in 1..Len(l) }

\* HTTP status codes used by the handlers (fastapi.status).
HTTP_201_CREATED == 201

HTTP_400_BAD_REQUEST == 400

HTTP_403_FORBIDDEN == 403

HTTP_500_INTERNAL_SERVER_ERROR == 500

HTTP_200_OK == 200

HTTP_404_NOT_FOUND == 404

HTTP_401_UNAUTHORIZED == 401

\* ------------------------------------------------------------------- state

VARIABLES
  usuario,              \* table usuario: id -> [rol, activo]
  almacen,              \* table almacen: codigo -> [activo]
  producto,             \* table producto: codigo -> [id_categoria, activo]
  categoria_producto,   \* table categoria_producto: id -> [nombre]
  stock,                \* table stock: rows [codigo_almacen, codigo_producto, lote, cantidad]
  movimientos,          \* table movimientos, committed rows
  movimientos_lineas,   \* table movimientos_lineas, committed rows
  movimientos_id_seq,   \* next value of the id sequence of movimientos
  today,                \* date.today()
  active_connections,   \* manager.active_connections (a Python list)
  sock,                 \* per WebSocket: "none" | "open" | "slow" | "closed"
  pc,                   \* per request: position in create_movement
  current_user,         \* per request: the User get_current_user returned
  movement_data,        \* per request: the MovementCreate body
  new_movement,         \* per request: the Movement object (id_mov None until flushed)
  session,              \* per request: rows written by the open transaction
  nombre_usuario,       \* per request: local of create_movement
  movement_lines,       \* per request: local of create_movement
  bc_iter,              \* per request: index of the list iterator of broadcast
  connection,           \* per request: loop variable of broadcast
  response,             \* per request: what the caller received
  journal0,             \* per request: the committed journal when the request began
  excepcion,            \* per request: the exception raised, and at which step
  broadcast_log,        \* history: the messages manager.broadcast was called with
  ids_emitidos,         \* history: the id_mov each header flush obtained, in order
  difusion,             \* history, per request: what happened during its broadcast
  respuesta_api         \* what the caller of the last single-step handler received

dbvars == <<usuario, almacen, producto, categoria_producto, stock, movimientos,
            movimientos_lineas, movimientos_id_seq>>

wsvars == <<active_connections, sock>>

reqvars == <<pc, current_user, movement_data, new_movement, session,
             nombre_usuario, movement_lines, bc_iter, connection, response,
             journal0, excepcion>>

vars == <<dbvars, today, wsvars, reqvars, broadcast_log, ids_emitidos, difusion,
          respuesta_api>>

\* Concurrent requests served (threadpool workers running create_movement).
Slots == {"r1"}

\* WebSocket clients.
Sockets == {"ws1"}

\* --------------------------------------------------------------- the inputs

\* MovementLineCreate (schemas/movement_line.py).
Linea(a, p, l, f, c) ==
  [codigo_almacen |-> a, codigo_producto |-> p, lote |-> l, fecha_cad |-> f,
   cantidad |-> c]

\* n lines on active warehouse 1 and active product 1, told apart by cantidad.
Rep(n) == [i \in 1..n |-> Linea(1, 1, None, None, i)]

\* Two lines with a lot label and an expiration date of tomorrow, then a blank lot.
ConLote == <<Linea(1, 1, Some("L1"), Some(2), 2), Linea(1, 1, Some(""), None, 1)>>

\* Lines whose warehouse or product is inactive (code 2) or unknown (code 3),
\* in first or last position.
ConAlmacenInactivo == <<Linea(2, 1, None, None, 1), Linea(1, 1, None, None, 2)>>

ConAlmacenDesconocido == <<Linea(1, 1, None, None, 1), Linea(3, 1, None, None, 2)>>

ConProductoInactivo == <<Linea(1, 2, None, None, 1), Linea(1, 1, None, None, 2)>>

ConProductoDesconocido == <<Linea(1, 1, None, None, 1), Linea(1, 3, None, None, 2)>>

ConAmbos == <<Linea(2, 3, None, None, 1)>>

\* Lines with an expiration date in the past (0) and of today (1).
ConCaducadaAyer == <<Linea(1, 1, None, None, 1), Linea(1, 1, None, Some(0), 2)>>

ConCaducadaHoy == <<Linea(1, 1, Some("L2"), Some(1), 1)>>

\* One line over the bound, the last one with an expiration date in the past.
DemasiadasConCaducada ==
  [i \in 1..(MAX_LINEAS + 1) |->
     Linea(1, 1, None, IF i = MAX_LINEAS + 1 THEN Some(0) ELSE None, i)]

\* Several offending codes, one of them on two lines: warehouses 2 and 3 (and
\* products 2 and 3 on the same lines), and products 2 and 3 alone.
ConVariosAlmacenes ==
  <<Linea(2, 2, None, None, 1), Linea(3, 1, None, None, 2), Linea(2, 3, None, None, 3),
    Linea(1, 1, None, None, 4)>>

ConVariosProductos ==
  <<Linea(1, 3, None, None, 1), Linea(1, 2, None, None, 2), Linea(1, 3, None, None, 3)>>

ListasDeLineas ==
  { <<>>, Rep(1), ConLote,
    ConAlmacenInactivo, ConAlmacenDesconocido, ConProductoInactivo,
    ConProductoDesconocido, ConAmbos, ConVariosAlmacenes, ConVariosProductos,
    ConCaducadaAyer, ConCaducadaHoy,
    Rep(MAX_LINEAS), Rep(MAX_LINEAS + 1), DemasiadasConCaducada }

\* A request: the authenticated caller and the MovementCreate body.
Peticion(u, t, d, ls) == [caller |-> u, tipo |-> t, id_usuario |-> d, lineas |-> ls]

\* Callers 1 (admin) and 2 (usuario) submitting for users 1, 2 and 3 (no such user).
PeticionesAutorizacion ==
  { Peticion(u, "entrada", d, ls) :
      u \in {1, 2}, d \in {1, 2, 3}, ls \in {<<>>, Rep(1), Rep(MAX_LINEAS + 1)} }

\* Caller 2 submitting for itself: every list of lines inbound, and the lists
\* that carry expiration dates outbound.
PeticionesLineas ==
  { Peticion(2, "entrada", 2, ls) : ls \in ListasDeLineas }
  \cup { Peticion(2, "salida", 2, ls) : ls \in {ConLote, ConCaducadaAyer, ConCaducadaHoy} }

Peticiones == PeticionesAutorizacion \cup PeticionesLineas

\* ------------------------------------------------------------ the responses

\* What the caller receives: an HTTPException (status, detail) or the 201 body.
Respuesta(st, det, cods, lin, bod) ==
  [status |-> st, detail |-> det, codigos |-> cods, linea |-> lin, body |-> bod]

SinRespuesta == Respuesta(0, "", {}, None, None)

HTTPException(st, det) == Respuesta(st, det, {}, None, None)

\* ----------------------------------------------------- validation (pure part)

\* Variant: every user counts as an admin.
IsAdminUserSiempre(user) == TRUE

\* Variant: the role compared without lower().
IsAdminUserSinLower(user) == user.rol = "admin"

\* utils/validation.py is_admin_user
is_admin_user(user) == Lower(user.rol) = "admin"

\* Variant: `<` in place of `<=`.
VencidaSoloAnterior(linea, tipo, hoy) ==
  /\ TruthyDate(linea.fecha_cad)
  /\ linea.fecha_cad[1] < hoy
  /\ tipo = "entrada"

\* The condition of the expiration loop of create_movement.
Vencida(linea, tipo, hoy) ==
  /\ TruthyDate(linea.fecha_cad)
  /\ linea.fecha_cad[1] <= hoy
  /\ tipo = "entrada"

\* The first line, in list order, the expiration loop raises for.
PrimeraVencida(md, hoy) ==
  LET idx == { i \in 1..Len(md.lineas) : Vencida(md.lineas[i], md.tipo, hoy) }
  IN  IF idx = {} THEN None
      ELSE Some(md.lineas[CHOOSE i \in idx : \A j \in idx : i <= j])

\* Variant: `>=` in place of `>`.
DemasiadasLineasDesde(n) == n >= MAX_LINEAS

\* `len(movement_data.lineas) > 100`
DemasiadasLineas(n) == n > MAX_LINEAS

\* Variant: the cardinality bound checked before the expiration policy.
ValidarLimiteAntes(cu, md, hoy) ==
  IF ~is_admin_user(cu) /\ md.id_usuario # cu.id
    THEN HTTPException(HTTP_403_FORBIDDEN,
                       "No puedes registrar un movimiento para otro usuario.")
  ELSE IF md.lineas = <<>>
    THEN HTTPException(HTTP_400_BAD_REQUEST,
                       "El movimiento debe contener al menos una linea.")
  ELSE IF DemasiadasLineas(Len(md.lineas))
    THEN HTTPException(HTTP_400_BAD_REQUEST,
                       "El numero maximo de lineas permitidas es 100.")
  ELSE IF PrimeraVencida(md, hoy) # None
    THEN Respuesta(HTTP_400_BAD_REQUEST, "fecha de caducidad vencida o del dia actual",
                   {}, PrimeraVencida(md, hoy), None)
  ELSE SinRespuesta

\* The checks of create_movement before the transaction, in the order of the code:
\* the HTTPException raised, or SinRespuesta when all pass.
Validar(cu, md, hoy) ==
  IF ~is_admin_user(cu) /\ md.id_usuario # cu.id
    THEN HTTPException(HTTP_403_FORBIDDEN,
                       "No puedes registrar un movimiento para otro usuario.")
  ELSE IF md.lineas = <<>>
    THEN HTTPException(HTTP_400_BAD_REQUEST,
                       "El movimiento debe contener al menos una linea.")
  ELSE IF PrimeraVencida(md, hoy) # None
    THEN Respuesta(HTTP_400_BAD_REQUEST, "fecha de caducidad vencida o del dia actual",
                   {}, PrimeraVencida(md, hoy), None)
  ELSE IF DemasiadasLineas(Len(md.lineas))
    THEN HTTPException(HTTP_400_BAD_REQUEST,
                       "El numero maximo de lineas permitidas es 100.")
  ELSE SinRespuesta


\* -------------------------------------------------------- the rows written

\* The Movement object create_movement builds; id_mov is None until the flush.
Movement(tipo, id_usuario) == [id_mov |-> None, tipo |-> tipo, id_usuario |-> id_usuario]

\* A row of table movimientos.
FilaMovimiento(id, m) == [id_mov |-> id, tipo |-> m.tipo, id_usuario |-> m.id_usuario]

\* `line_data.lote or "SIN_LOTE"`
LoteODefecto(lote) == IF TruthyStr(lote) THEN lote[1] ELSE "SIN_LOTE"

\* The MovementLine the loop builds for the i-th submitted line.
MovementLine(id, i, line_data) ==
  [id_mov          |-> id,
   id_linea        |-> i,
   codigo_almacen  |-> line_data.codigo_almacen,
   codigo_producto |-> line_data.codigo_producto,
   lote            |-> LoteODefecto(line_data.lote),
   fecha_cad       |-> line_data.fecha_cad,
   cantidad        |-> line_data.cantidad]

\* Variant: enumerate(...) without the start argument.
LineasDesdeCero(id, lineas) ==
  [i \in 1..Len(lineas) |-> MovementLine(id, i - 1, lineas[i])]

\* `for i, line_data in enumerate(movement_data.lineas, 1)`: the lines added.
LineasNuevas(id, lineas) ==
  [i \in 1..Len(lineas) |-> MovementLine(id, i, lineas[i])]

\* The rows an open transaction has written: the flushed header, the flushed
\* lines, and the line objects added to the session and not yet flushed.
SesionVacia == [movimientos |-> {}, lineas |-> {}, nuevos |-> <<>>]

\* Variant: the query without `Warehouse.activo == True`.
AlmacenesExistentes(codigos) == { c \in SetOf(codigos) : c \in DOMAIN almacen }

\* `select(Warehouse.codigo).where(Warehouse.codigo.in_(almacenes), Warehouse.activo == True)`
AlmacenesActivos(codigos) ==
  { c \in SetOf(codigos) : c \in DOMAIN almacen /\ almacen[c].activo }

\* `select(Product.codigo).where(Product.codigo.in_(productos), Product.activo == True)`
ProductosActivos(codigos) ==
  { c \in SetOf(codigos) : c \in DOMAIN producto /\ producto[c].activo }

CodigosAlmacen(md) == [i \in 1..Len(md.lineas) |-> md.lineas[i].codigo_almacen]

CodigosProducto(md) == [i \in 1..Len(md.lineas) |-> md.lineas[i].codigo_producto]

\* ------------------------------------------------------ exception handling

\* The exception classes a statement inside the try block can raise.
ErroresSQLAlchemy == {"IntegrityError", "OperationalError"}

Fallos == ErroresSQLAlchemy \cup {"Exception"}

Excepcion(cls, resp) == [cls |-> cls, resp |-> resp]

SinExcepcion == [cls |-> "", paso |-> ""]

\* The three except clauses of the write transaction, in the order of the code.
RespuestaExcept(exc) ==
  IF exc.cls \in ErroresSQLAlchemy
    THEN HTTPException(HTTP_400_BAD_REQUEST, "Error de integridad")
  ELSE IF exc.cls = "HTTPException" THEN exc.resp
  ELSE HTTPException(HTTP_500_INTERNAL_SERVER_ERROR, "Error en la base de datos.")

\* Variant: the except clauses without db.rollback().
SesionTrasExceptSinRollback(ses, exc) == ses

\* db.rollback() in every except clause: the session's writes are discarded.
SesionTrasExcept(ses, exc) == SesionVacia

\* An exception raised inside the try block of request s: rollback and response.
Raise(s, exc) ==
  /\ session' = [session EXCEPT ![s] = SesionTrasExcept(session[s], exc)]
  /\ response' = [response EXCEPT ![s] = RespuestaExcept(exc)]
  /\ excepcion' = [excepcion EXCEPT ![s] = [cls |-> exc.cls, paso |-> pc[s]]]
  /\ pc' = [pc EXCEPT ![s] = "done"]

\* The locals of an idle worker.
SinUsuario == [id |-> 0, rol |-> ""]

SinDatos == [tipo |-> "", id_usuario |-> 0, lineas |-> <<>>]

SinMovimiento == [id_mov |-> None, tipo |-> "", id_usuario |-> 0]

\* ------------------------------------------------------------------- Init

\* What happened during the broadcast of a request: the sockets a send to
\* completed, whether the registry changed, the clients that went away, and
\* the observers registered when it was called that have stayed connected and
\* have not been delivered the message yet.
SinDifusion ==
  [entregados |-> {}, mutado |-> FALSE, desconectados |-> {}, pendientes |-> {}]

\* The response of a single-step handler: none yet.
SinRespuestaApi == [op |-> "", caller |-> 0, arg |-> <<>>, status |-> 0, body |-> {}]

\* The state of a fresh process over the existing database: users 1 (admin) and
\* 2; warehouses and products 1 (active, no stock), 2 (inactive) and 4 (active,
\* in stock); categories 1 (in use) and 2 (empty); an empty journal.
Inicio(slots, sockets) ==
  /\ usuario = (1 :> [nombre |-> "Ana", rol |-> "Admin", activo |-> TRUE]
                @@ 2 :> [nombre |-> "Luis", rol |-> "usuario", activo |-> TRUE])
  /\ almacen = (1 :> [activo |-> TRUE] @@ 2 :> [activo |-> FALSE]
                @@ 4 :> [activo |-> TRUE])
  /\ producto = (1 :> [id_categoria |-> 1, activo |-> TRUE]
                 @@ 2 :> [id_categoria |-> 1, activo |-> FALSE]
                 @@ 4 :> [id_categoria |-> 1, activo |-> TRUE])
  /\ categoria_producto = (1 :> [nombre |-> "General"] @@ 2 :> [nombre |-> "Vacia"])
  /\ stock = { [codigo_almacen |-> 4, codigo_producto |-> 4, lote |-> "SIN_LOTE",
                cantidad |-> 5] }
  /\ difusion = [s \in slots |-> SinDifusion]
  /\ respuesta_api = SinRespuestaApi
  /\ movimientos = {}
  /\ movimientos_lineas = {}
  /\ movimientos_id_seq = 1
  /\ today = 1
  /\ active_connections = <<>>
  /\ sock = [w \in sockets |-> "none"]
  /\ pc = [s \in slots |-> "idle"]
  /\ current_user = [s \in slots |-> SinUsuario]
  /\ movement_data = [s \in slots |-> SinDatos]
  /\ new_movement = [s \in slots |-> SinMovimiento]
  /\ session = [s \in slots |-> SesionVacia]
  /\ nombre_usuario = [s \in slots |-> None]
  /\ movement_lines = [s \in slots |-> {}]
  /\ bc_iter = [s \in slots |-> 0]
  /\ connection = [s \in slots |-> None]
  /\ response = [s \in slots |-> SinRespuesta]
  /\ journal0 = [s \in slots |-> [movimientos |-> {}, lineas |-> {}]]
  /\ excepcion = [s \in slots |-> SinExcepcion]
  /\ broadcast_log = <<>>
  /\ ids_emitidos = <<>>

Init == Inicio(Slots, Sockets)


\* -------------------------------------------------- create_movement, by step

PasosTransaccion ==
  {"flush", "select_almacenes", "select_productos", "insert_lineas", "commit"}

\* A request arrives: get_current_user has returned the caller's row (the user
\* exists and is active), and the checks before the transaction run.
Begin(s, p) ==
  /\ pc[s] = "idle"
  /\ movimientos_id_seq <= MaxMovs
  /\ p.caller \in DOMAIN usuario
  /\ usuario[p.caller].activo
  /\ LET cu == [id |-> p.caller, rol |-> usuario[p.caller].rol]
         md == [tipo |-> p.tipo, id_usuario |-> p.id_usuario, lineas |-> p.lineas]
         v  == Validar(cu, md, today)
     IN  /\ current_user' = [current_user EXCEPT ![s] = cu]
         /\ movement_data' = [movement_data EXCEPT ![s] = md]
         /\ journal0' = [journal0 EXCEPT ![s] =
                           [movimientos |-> movimientos, lineas |-> movimientos_lineas]]
         /\ IF v # SinRespuesta
              THEN /\ response' = [response EXCEPT ![s] = v]
                   /\ pc' = [pc EXCEPT ![s] = "done"]
                   /\ UNCHANGED new_movement
              ELSE /\ new_movement' = [new_movement EXCEPT ![s] =
                                         Movement(md.tipo, md.id_usuario)]
                   /\ pc' = [pc EXCEPT ![s] = "flush"]
                   /\ UNCHANGED response
  /\ UNCHANGED <<dbvars, today, respuesta_api, wsvars, session, nombre_usuario, movement_lines,
                 bc_iter, connection, excepcion, broadcast_log, difusion, ids_emitidos>>

\* Variant: db.commit() in place of db.flush().
VisibleTrasCommitTemprano(visibles, fila) == visibles \cup {fila}

\* db.flush() sends the INSERT inside the open transaction: the committed rows
\* other sessions see are unchanged.
VisibleTrasFlush(visibles, fila) == visibles

\* db.add(new_movement); db.flush(): the INSERT draws the next id of the sequence
\* (a drawn value is never handed out again, whatever the transaction's fate) and
\* the foreign key on id_usuario is checked.
FlushHeader(s) ==
  /\ pc[s] = "flush"
  /\ LET id == movimientos_id_seq
         m  == new_movement[s]
     IN  /\ movimientos_id_seq' = id + 1
         /\ ids_emitidos' = Append(ids_emitidos, id)
         /\ IF m.id_usuario \in DOMAIN usuario
              THEN /\ session' = [session EXCEPT ![s].movimientos = {FilaMovimiento(id, m)}]
                   /\ new_movement' = [new_movement EXCEPT ![s].id_mov = Some(id)]
                   /\ pc' = [pc EXCEPT ![s] = "select_almacenes"]
                   /\ movimientos' = VisibleTrasFlush(movimientos, FilaMovimiento(id, m))
                   /\ UNCHANGED <<response, excepcion>>
              ELSE /\ Raise(s, Excepcion("IntegrityError", SinRespuesta))
                   /\ UNCHANGED <<new_movement, movimientos>>
  /\ UNCHANGED <<usuario, almacen, producto, categoria_producto, stock, movimientos_lineas,
                 today, respuesta_api, wsvars, current_user, movement_data, nombre_usuario,
                 movement_lines, bc_iter, connection, journal0, broadcast_log, difusion>>

\* The query of the active warehouses and the set difference.
SelectAlmacenes(s) ==
  /\ pc[s] = "select_almacenes"
  /\ LET almacenes == CodigosAlmacen(movement_data[s])
         diff == SetOf(almacenes) \ AlmacenesActivos(almacenes)
     IN  IF diff # {}
           THEN Raise(s, Excepcion("HTTPException",
                        Respuesta(HTTP_400_BAD_REQUEST, "Los siguientes almacenes no existen",
                                  diff, None, None)))
           ELSE /\ pc' = [pc EXCEPT ![s] = "select_productos"]
                /\ UNCHANGED <<session, response, excepcion>>
  /\ UNCHANGED <<dbvars, today, respuesta_api, wsvars, current_user, movement_data, new_movement,
                 nombre_usuario, movement_lines, bc_iter, connection, journal0,
                 broadcast_log, difusion, ids_emitidos>>

\* The query of the active products, the set difference, and the loop that adds
\* one MovementLine per submitted line to the session.
SelectProductos(s) ==
  /\ pc[s] = "select_productos"
  /\ LET productos == CodigosProducto(movement_data[s])
         diff == SetOf(productos) \ ProductosActivos(productos)
     IN  IF diff # {}
           THEN Raise(s, Excepcion("HTTPException",
                        Respuesta(HTTP_400_BAD_REQUEST, "Los siguientes productos no existen",
                                  diff, None, None)))
           ELSE /\ session' = [session EXCEPT ![s].nuevos =
                                 LineasNuevas(new_movement[s].id_mov[1],
                                              movement_data[s].lineas)]
                /\ pc' = [pc EXCEPT ![s] = "insert_lineas"]
                /\ UNCHANGED <<response, excepcion>>
  /\ UNCHANGED <<dbvars, today, respuesta_api, wsvars, current_user, movement_data, new_movement,
                 nombre_usuario, movement_lines, bc_iter, connection, journal0,
                 broadcast_log, difusion, ids_emitidos>>

\* Variant: movimientos_lineas without its foreign keys on almacen and producto.
SinClavesForaneas(lineas) == TRUE

\* The foreign keys of movimientos_lineas: the warehouse and the product of
\* every inserted line exist.
ClavesForaneas(lineas) ==
  \A i \in 1..Len(lineas) :
    /\ lineas[i].codigo_almacen \in DOMAIN almacen
    /\ lineas[i].codigo_producto \in DOMAIN producto

\* db.commit(), first half: the pending lines are flushed (INSERTed), and the
\* INSERT raises IntegrityError when a foreign key finds no row.
InsertLineas(s) ==
  /\ pc[s] = "insert_lineas"
  /\ IF ClavesForaneas(session[s].nuevos)
       THEN /\ session' = [session EXCEPT ![s].lineas = SetOf(session[s].nuevos),
                                          ![s].nuevos = <<>>]
            /\ pc' = [pc EXCEPT ![s] = "commit"]
            /\ UNCHANGED <<response, excepcion>>
       ELSE Raise(s, Excepcion("IntegrityError", SinRespuesta))
  /\ UNCHANGED <<dbvars, today, respuesta_api, wsvars, current_user, movement_data, new_movement,
                 nombre_usuario, movement_lines, bc_iter, connection,
                 journal0, broadcast_log, difusion, ids_emitidos>>

\* A variant of TrasCommit in which the table holds the last transaction's rows.
TrasCommitReemplaza(visibles, nuevas) == nuevas

\* The rows of a table after COMMIT: the INSERTs of the transaction are added,
\* create_movement issues no UPDATE and no DELETE.
TrasCommit(visibles, nuevas) == visibles \cup nuevas

\* db.commit(), second half: COMMIT makes the transaction's rows visible.
Commit(s) ==
  /\ pc[s] = "commit"
  /\ movimientos' = TrasCommit(movimientos, session[s].movimientos)
  /\ movimientos_lineas' = TrasCommit(movimientos_lineas, session[s].lineas)
  /\ session' = [session EXCEPT ![s] = SesionVacia]
  /\ pc' = [pc EXCEPT ![s] = "read_user"]
  /\ UNCHANGED <<usuario, almacen, producto, categoria_producto, stock, movimientos_id_seq, today, respuesta_api, wsvars,
                 current_user, movement_data, new_movement, nombre_usuario,
                 movement_lines, bc_iter, connection, response, journal0, excepcion,
                 broadcast_log, difusion, ids_emitidos>>

\* A statement of the write transaction raises instead of succeeding: a
\* constraint violation, a lost connection, or any other exception.
FalloTransaccion(s, cls) ==
  /\ pc[s] \in PasosTransaccion
  /\ Raise(s, Excepcion(cls, SinRespuesta))
  /\ UNCHANGED <<dbvars, today, respuesta_api, wsvars, current_user, movement_data, new_movement,
                 nombre_usuario, movement_lines, bc_iter, connection, journal0,
                 broadcast_log, difusion, ids_emitidos>>

\* `select(User.nombre).where(User.id == movement_data.id_usuario)`
ReadUser(s) ==
  /\ pc[s] = "read_user"
  /\ LET u == movement_data[s].id_usuario
     IN  nombre_usuario' = [nombre_usuario EXCEPT ![s] =
           IF u \in DOMAIN usuario THEN Some(usuario[u].nombre) ELSE None]
  /\ pc' = [pc EXCEPT ![s] = "read_lines"]
  /\ UNCHANGED <<dbvars, today, respuesta_api, wsvars, current_user, movement_data, new_movement,
                 session, movement_lines, bc_iter, connection, response, journal0, excepcion,
                 broadcast_log, difusion, ids_emitidos>>

\* `select(MovementLine).where(MovementLine.id_mov == new_movement.id_mov)`
ReadLines(s) ==
  /\ pc[s] = "read_lines"
  /\ movement_lines' = [movement_lines EXCEPT ![s] =
       { l \in movimientos_lineas : l.id_mov = new_movement[s].id_mov[1] }]
  /\ pc' = [pc EXCEPT ![s] = "emit"]
  /\ UNCHANGED <<dbvars, today, respuesta_api, wsvars, current_user, movement_data, new_movement,
                 session, nombre_usuario, bc_iter, connection, response, journal0, excepcion,
                 broadcast_log, difusion, ids_emitidos>>

\* One of the two reads after the commit raises SQLAlchemyError: the handler
\* raises HTTPException(500).
FalloLectura(s) ==
  /\ pc[s] \in {"read_user", "read_lines"}
  /\ response' = [response EXCEPT ![s] =
       HTTPException(HTTP_500_INTERNAL_SERVER_ERROR,
                     IF pc[s] = "read_user"
                       THEN "Error al obtener el usuario asociado al movimiento"
                       ELSE "Error de conexion con la base de datos")]
  /\ excepcion' = [excepcion EXCEPT ![s] = [cls |-> "OperationalError", paso |-> pc[s]]]
  /\ pc' = [pc EXCEPT ![s] = "done"]
  /\ UNCHANGED <<dbvars, today, respuesta_api, wsvars, current_user, movement_data, new_movement,
                 session, nombre_usuario, movement_lines, bc_iter, connection,
                 journal0, broadcast_log, difusion, ids_emitidos>>


\* ------------------------------------------------- the notification step

\* f"Nuevo movimiento registrado: {new_movement.id_mov} ({new_movement.tipo})"
Mensaje(m) == [id_mov |-> m.id_mov[1], tipo |-> m.tipo]

\* anyio.from_thread.run(emitir_websocket_mensaje, mensaje): manager.broadcast
\* is called on the event loop and the worker thread waits for it to return.
Emit(s) ==
  /\ pc[s] = "emit"
  /\ broadcast_log' = Append(broadcast_log, Mensaje(new_movement[s]))
  /\ bc_iter' = [bc_iter EXCEPT ![s] = 0]
  /\ difusion' = [difusion EXCEPT ![s] =
       [SinDifusion EXCEPT !.pendientes =
          { w \in SetOf(active_connections) : sock[w] \in {"open", "slow"} }]]
  /\ pc' = [pc EXCEPT ![s] = "bc_next"]
  /\ UNCHANGED <<dbvars, today, respuesta_api, wsvars, current_user, movement_data, new_movement,
                 session, nombre_usuario, movement_lines, connection, response,
                 journal0, excepcion, ids_emitidos>>

\* `for connection in self.active_connections`: the list iterator yields the
\* element at its index and advances, or the loop ends and broadcast returns.
BroadcastNext(s) ==
  /\ pc[s] = "bc_next"
  /\ IF bc_iter[s] < Len(active_connections)
       THEN /\ connection' = [connection EXCEPT ![s] =
                                Some(active_connections[bc_iter[s] + 1])]
            /\ bc_iter' = [bc_iter EXCEPT ![s] = bc_iter[s] + 1]
            /\ pc' = [pc EXCEPT ![s] = "bc_send"]
       ELSE /\ connection' = [connection EXCEPT ![s] = None]
            /\ pc' = [pc EXCEPT ![s] = "return"]
            /\ UNCHANGED bc_iter
  /\ UNCHANGED <<dbvars, today, respuesta_api, wsvars, current_user, movement_data, new_movement,
                 session, nombre_usuario, movement_lines, response, journal0, excepcion,
                 broadcast_log, difusion, ids_emitidos>>

\* Variant: the notification step without its try/except.
ExceptBroadcastPropaga(s) ==
  /\ response' = [response EXCEPT ![s] =
       HTTPException(HTTP_500_INTERNAL_SERVER_ERROR, "Error al emitir WebSocket")]
  /\ pc' = [pc EXCEPT ![s] = "done"]

\* `except Exception as e: print(...)`: the failure is printed and the handler
\* goes on to build its response.
ExceptBroadcast(s) ==
  /\ pc' = [pc EXCEPT ![s] = "return"]
  /\ UNCHANGED response

\* `await connection.send_text(message)` completes: the client takes the frame.
BroadcastSend(s) ==
  /\ pc[s] = "bc_send"
  /\ sock[connection[s][1]] = "open"
  /\ difusion' = [difusion EXCEPT ![s].entregados = @ \cup {connection[s][1]},
                                  ![s].pendientes = @ \ {connection[s][1]}]
  /\ pc' = [pc EXCEPT ![s] = "bc_next"]
  /\ UNCHANGED <<dbvars, today, respuesta_api, wsvars, current_user, movement_data,
                 new_movement, session, nombre_usuario, movement_lines, bc_iter,
                 connection, response, journal0, excepcion, broadcast_log, ids_emitidos>>

\* `await connection.send_text(message)` raises: the client is gone. broadcast
\* has no handler, so the exception leaves it and reaches create_movement.
BroadcastSendFails(s) ==
  /\ pc[s] = "bc_send"
  /\ sock[connection[s][1]] \in {"closed", "none"}
  /\ excepcion' = [excepcion EXCEPT ![s] = [cls |-> "WebSocketDisconnect", paso |-> pc[s]]]
  /\ ExceptBroadcast(s)
  /\ UNCHANGED <<dbvars, today, respuesta_api, wsvars, current_user, movement_data, new_movement,
                 session, nombre_usuario, movement_lines, bc_iter, connection,
                 journal0, broadcast_log, difusion, ids_emitidos>>

\* `return MovementResponse(...)`
MovementResponse(m, nombre, lineas) ==
  [id_mov |-> m.id_mov[1], tipo |-> m.tipo, id_usuario |-> m.id_usuario,
   nombre_usuario |-> IF nombre # None THEN nombre[1] ELSE "Desconocido",
   lineas |-> lineas]

Return(s) ==
  /\ pc[s] = "return"
  /\ response' = [response EXCEPT ![s] =
       Respuesta(HTTP_201_CREATED, "", {}, None,
                 Some(MovementResponse(new_movement[s], nombre_usuario[s],
                                       movement_lines[s])))]
  /\ difusion' = [difusion EXCEPT ![s] = SinDifusion]
  /\ pc' = [pc EXCEPT ![s] = "done"]
  /\ UNCHANGED <<dbvars, today, respuesta_api, wsvars, current_user, movement_data,
                 new_movement, session, nombre_usuario, movement_lines, bc_iter,
                 connection, journal0, excepcion, broadcast_log, ids_emitidos>>

\* The response has been sent; the worker is free for the next request.
Finish(s) ==
  /\ pc[s] = "done"
  /\ pc' = [pc EXCEPT ![s] = "idle"]
  /\ current_user' = [current_user EXCEPT ![s] = SinUsuario]
  /\ movement_data' = [movement_data EXCEPT ![s] = SinDatos]
  /\ new_movement' = [new_movement EXCEPT ![s] = SinMovimiento]
  /\ session' = [session EXCEPT ![s] = SesionVacia]
  /\ nombre_usuario' = [nombre_usuario EXCEPT ![s] = None]
  /\ movement_lines' = [movement_lines EXCEPT ![s] = {}]
  /\ bc_iter' = [bc_iter EXCEPT ![s] = 0]
  /\ connection' = [connection EXCEPT ![s] = None]
  /\ response' = [response EXCEPT ![s] = SinRespuesta]
  /\ journal0' = [journal0 EXCEPT ![s] = [movimientos |-> {}, lineas |-> {}]]
  /\ excepcion' = [excepcion EXCEPT ![s] = SinExcepcion]
  /\ UNCHANGED <<dbvars, today, respuesta_api, wsvars, broadcast_log, difusion, ids_emitidos>>

\* ------------------------------------------------------ the observer registry

\* Variant: list.pop() in place of list.remove(x).
RemoveLast(l, x) == SubSeq(l, 1, Len(l) - 1)

\* list.remove(x): the list without the first occurrence of x.
RemoveFirst(l, x) ==
  LET idx == { i \in 1..Len(l) : l[i] = x }
      k   == CHOOSE i \in idx : \A j \in idx : i <= j
  IN  [i \in 1..(Len(l) - 1) |-> IF i < k THEN l[i] ELSE l[i + 1]]

\* A broadcast of request s is between its call and its return.
EnDifusion(s) == pc[s] \in {"bc_next", "bc_send"}

\* The registry changed: every broadcast in flight has seen a change.
RegistroMutado ==
  [s \in DOMAIN pc |->
     IF EnDifusion(s) THEN [difusion[s] EXCEPT !.mutado = TRUE] ELSE difusion[s]]

\* websocket_endpoint: manager.connect accepts the socket and appends it. The
\* WebSocket is a new object: not the one a send in flight was given.
WsConnect(w) ==
  /\ sock[w] = "none"
  /\ \A s \in DOMAIN pc : ~(pc[s] = "bc_send" /\ connection[s] = Some(w))
  /\ sock' = [sock EXCEPT ![w] = "open"]
  /\ active_connections' = Append(active_connections, w)
  /\ difusion' = RegistroMutado
  /\ UNCHANGED <<dbvars, today, respuesta_api, reqvars, broadcast_log, ids_emitidos>>

\* The client stops reading: a send to it does not complete until it reads again.
WsSlow(w) ==
  /\ sock[w] = "open"
  /\ sock' = [sock EXCEPT ![w] = "slow"]
  /\ UNCHANGED <<dbvars, today, respuesta_api, active_connections, reqvars, broadcast_log, difusion,
                 ids_emitidos>>

WsDrain(w) ==
  /\ sock[w] = "slow"
  /\ sock' = [sock EXCEPT ![w] = "open"]
  /\ UNCHANGED <<dbvars, today, respuesta_api, active_connections, reqvars, broadcast_log, difusion,
                 ids_emitidos>>

\* The client goes away; the server has not yet handled the disconnect.
WsClientClose(w) ==
  /\ sock[w] \in {"open", "slow"}
  /\ sock' = [sock EXCEPT ![w] = "closed"]
  /\ difusion' = [s \in DOMAIN pc |->
       IF EnDifusion(s)
         THEN [difusion[s] EXCEPT !.desconectados = @ \cup {w}, !.pendientes = @ \ {w}]
       ELSE difusion[s]]
  /\ UNCHANGED <<dbvars, today, respuesta_api, active_connections, reqvars,
                 broadcast_log, ids_emitidos>>

\* websocket_endpoint: receive_text raises WebSocketDisconnect and
\* manager.disconnect removes the socket from the list.
WsDisconnect(w) ==
  /\ sock[w] = "closed"
  /\ sock' = [sock EXCEPT ![w] = "none"]
  /\ active_connections' = RemoveFirst(active_connections, w)
  /\ difusion' = RegistroMutado
  /\ UNCHANGED <<dbvars, today, respuesta_api, reqvars, broadcast_log, ids_emitidos>>

\* ------------------------------------------------- the single-step handlers

\* Variant: get_current_user without the check of the active flag.
AutenticadoSinActivo(u) == u \in DOMAIN usuario

\* get_current_user lets the request in: the token's user exists and is active.
Autenticado(u) == u \in DOMAIN usuario /\ usuario[u].activo

\* The User that get_current_user hands to the handler.
UsuarioActual(u) == [id |-> u, rol |-> usuario[u].rol]

\* What the caller u of handler op, called with arguments arg, receives: the
\* status, and in body the keys of the rows whose data the response carries.
RespuestaApi(op, u, arg, st, body) ==
  [op |-> op, caller |-> u, arg |-> arg, status |-> st, body |-> body]

\* The handler answers and writes nothing.
Responde(r) ==
  /\ respuesta_api' = r
  /\ UNCHANGED <<dbvars, today, wsvars, reqvars, broadcast_log, ids_emitidos, difusion>>

\* auth.py refresh_token, called with the refresh cookie of user u: a new
\* access token is issued if the user exists; the active flag is not read.
refresh_token(u) ==
  LET user == IF u \in DOMAIN usuario THEN Some(u) ELSE None
  IN  IF user = None
        THEN Responde(RespuestaApi("refresh_token", u, <<>>, HTTP_401_UNAUTHORIZED, {}))
        ELSE Responde(RespuestaApi("refresh_token", u, <<>>, HTTP_200_OK, {}))

\* Python truthiness of an Optional[int]: None and 0 are falsy.
TruthyInt(n) == n # None /\ n # Some(0)

IdsMov(filas) == { f.id_mov : f \in filas }

\* `select(Movement, User.nombre).join(User, Movement.id_usuario == User.id)`
MovimientosConUsuario == { m \in movimientos : m.id_usuario \in DOMAIN usuario }

\* get_movements: the where clauses on usuario_id (admins) and on the caller
\* (everyone else). The other filters (search, tipo, dates) and the page only
\* narrow the result further.
get_movements(u, usuario_id) ==
  /\ Autenticado(u)
  /\ LET cu == UsuarioActual(u)
         results ==
           { m \in MovimientosConUsuario :
               /\ (TruthyInt(usuario_id) /\ is_admin_user(cu)) =>
                    m.id_usuario = usuario_id[1]
               /\ ~is_admin_user(cu) => m.id_usuario = cu.id }
     IN  Responde(RespuestaApi("get_movements", u, usuario_id, HTTP_200_OK,
                               IdsMov(results)))

\* get_movements_last_year: every movement of the model is of the last year.
get_movements_last_year(u) ==
  /\ Autenticado(u)
  /\ LET cu == UsuarioActual(u)
         results == { m \in movimientos : ~is_admin_user(cu) => m.id_usuario = cu.id }
     IN  Responde(RespuestaApi("get_movements_last_year", u, <<>>, HTTP_200_OK,
                               IdsMov(results)))

\* The 404 and 403 checks shared by get_movement and get_movement_lines, or
\* SinRespuestaApi when the caller may see movement id_mov.
AccesoAMovimiento(op, u, id_mov) ==
  LET cu == UsuarioActual(u)
      movement == { m \in movimientos : m.id_mov = id_mov }
  IN  IF movement = {}
        THEN RespuestaApi(op, u, <<id_mov>>, HTTP_404_NOT_FOUND, {})
      ELSE IF ~is_admin_user(cu) /\ (\A m \in movement : m.id_usuario # cu.id)
        THEN RespuestaApi(op, u, <<id_mov>>, HTTP_403_FORBIDDEN, {})
      ELSE SinRespuestaApi

get_movement(u, id_mov) ==
  /\ Autenticado(u)
  /\ LET r == AccesoAMovimiento("get_movement", u, id_mov)
     IN  Responde(IF r # SinRespuestaApi THEN r
                  ELSE RespuestaApi("get_movement", u, <<id_mov>>, HTTP_200_OK, {id_mov}))

\* get_movement_lines: the lines of the movement joined with their product and
\* warehouse.
get_movement_lines(u, id_mov) ==
  /\ Autenticado(u)
  /\ LET r == AccesoAMovimiento("get_movement_lines", u, id_mov)
         results == { l \in movimientos_lineas :
                        /\ l.id_mov = id_mov
                        /\ l.codigo_producto \in DOMAIN producto
                        /\ l.codigo_almacen \in DOMAIN almacen }
     IN  Responde(IF r # SinRespuestaApi THEN r
                  ELSE RespuestaApi("get_movement_lines", u, <<id_mov>>, HTTP_200_OK,
                                    IdsMov(results)))

\* contar_movimientos_por_tipo: the movements counted.
contar_movimientos_por_tipo(u) ==
  /\ Autenticado(u)
  /\ LET cu == UsuarioActual(u)
         resultados == { m \in MovimientosConUsuario :
                           ~is_admin_user(cu) => m.id_usuario = cu.id }
     IN  Responde(RespuestaApi("contar_movimientos_por_tipo", u, <<>>, HTTP_200_OK,
                               IdsMov(resultados)))

\* The statement of the four stock-history handlers: Movement joined with
\* MovementLine, User and Product, with an optional where clause on the
\* warehouse and on the product. It has no clause on the caller.
Historial(codigo_almacen, codigo_producto) ==
  { l \in movimientos_lineas :
      /\ \E m \in MovimientosConUsuario : m.id_mov = l.id_mov
      /\ l.codigo_producto \in DOMAIN producto
      /\ codigo_almacen # None => l.codigo_almacen = codigo_almacen[1]
      /\ codigo_producto # None => l.codigo_producto = codigo_producto[1] }

get_stock_history(u) ==
  /\ Autenticado(u)
  /\ Responde(RespuestaApi("get_stock_history", u, <<>>, HTTP_200_OK,
                            IdsMov(Historial(None, None))))

get_product_stock_history(u, codigo_producto) ==
  /\ Autenticado(u)
  /\ Responde(RespuestaApi("get_product_stock_history", u, <<codigo_producto>>,
                            HTTP_200_OK,
                            IdsMov(Historial(None, Some(codigo_producto)))))

get_warehouse_stock_history(u, codigo_almacen) ==
  /\ Autenticado(u)
  /\ Responde(RespuestaApi("get_warehouse_stock_history", u, <<codigo_almacen>>,
                            HTTP_200_OK,
                            IdsMov(Historial(Some(codigo_almacen), None))))

get_warehouse_and_product_stock_history(u, codigo_almacen, codigo_producto) ==
  /\ Autenticado(u)
  /\ Responde(RespuestaApi("get_warehouse_and_product_stock_history", u,
                            <<codigo_almacen, codigo_producto>>, HTTP_200_OK,
                            IdsMov(Historial(Some(codigo_almacen), Some(codigo_producto)))))

\* get_user: `if not is_admin_user(current_user) or user.id != id`, where user
\* is the row selected by `User.id == id`.
get_user(u, id) ==
  /\ Autenticado(u)
  /\ LET cu == UsuarioActual(u)
     IN  Responde(
           IF id \notin DOMAIN usuario
             THEN RespuestaApi("get_user", u, <<id>>, HTTP_404_NOT_FOUND, {})
           ELSE IF ~is_admin_user(cu) \/ id # id
             THEN RespuestaApi("get_user", u, <<id>>, HTTP_403_FORBIDDEN, {})
           ELSE RespuestaApi("get_user", u, <<id>>, HTTP_200_OK, {id}))

\* ------------------------------------------------------ the write handlers

\* dependencies.py require_admin
require_admin(user) == Lower(user.rol) = "admin"

\* A handler commits a change to one table and answers.
EnUsuario(tabla, r) ==
  /\ usuario' = tabla
  /\ respuesta_api' = r
  /\ UNCHANGED <<almacen, producto, categoria_producto, stock, movimientos,
                 movimientos_lineas, movimientos_id_seq, today, wsvars, reqvars,
                 broadcast_log, ids_emitidos, difusion>>

EnProducto(tabla, r) ==
  /\ producto' = tabla
  /\ respuesta_api' = r
  /\ UNCHANGED <<usuario, almacen, categoria_producto, stock, movimientos,
                 movimientos_lineas, movimientos_id_seq, today, wsvars, reqvars,
                 broadcast_log, ids_emitidos, difusion>>

EnAlmacen(tabla, r) ==
  /\ almacen' = tabla
  /\ respuesta_api' = r
  /\ UNCHANGED <<usuario, producto, categoria_producto, stock, movimientos,
                 movimientos_lineas, movimientos_id_seq, today, wsvars, reqvars,
                 broadcast_log, ids_emitidos, difusion>>

EnCategoria(tabla, r) ==
  /\ categoria_producto' = tabla
  /\ respuesta_api' = r
  /\ UNCHANGED <<usuario, almacen, producto, stock, movimientos,
                 movimientos_lineas, movimientos_id_seq, today, wsvars, reqvars,
                 broadcast_log, ids_emitidos, difusion>>

\* DELETE of the row with key k; INSERT of a row under key k.
BorrarFila(tabla, k) == [c \in DOMAIN tabla \ {k} |-> tabla[c]]

InsertarFila(tabla, k, fila) == [c \in DOMAIN tabla \cup {k} |-> IF c = k THEN fila ELSE tabla[c]]

\* The keys the id sequences of usuario, producto, almacen and
\* categoria_producto hand out next, given the rows of Inicio.
UsuarioNuevo == 3

ProductoNuevo == 5

AlmacenNuevo == 5

CategoriaNueva == 3

\* The foreign keys, as declared in the models (no ON DELETE action): the rows
\* that reference a key, committed or written by a transaction still open (a
\* DELETE of the referenced row waits for that transaction to end).
EnVueloUsuario(id) ==
  \E s \in DOMAIN pc : \E m \in session[s].movimientos : m.id_usuario = id

EnVueloProducto(codigo) ==
  \E s \in DOMAIN pc : \E l \in session[s].lineas : l.codigo_producto = codigo

EnVueloAlmacen(codigo) ==
  \E s \in DOMAIN pc : \E l \in session[s].lineas : l.codigo_almacen = codigo

ReferenciaAProducto(codigo) ==
  \/ \E l \in movimientos_lineas : l.codigo_producto = codigo
  \/ \E f \in stock : f.codigo_producto = codigo

ReferenciaAAlmacen(codigo) ==
  \/ \E l \in movimientos_lineas : l.codigo_almacen = codigo
  \/ \E f \in stock : f.codigo_almacen = codigo

\* `select(func.sum(Stock.cantidad)).where(...).first() or 0`
RECURSIVE Suma(_)
Suma(filas) ==
  IF filas = {} THEN 0
  ELSE LET f == CHOOSE x \in filas : TRUE IN f.cantidad + Suma(filas \ {f})

\* Of the response of a write handler the model keeps the status.
RespuestaEscritura(st) == RespuestaApi("escritura", 0, <<>>, st, {})

Rechaza(st) == Responde(RespuestaEscritura(st))

\* The refusals of a delete that name the movements carry their detail.
RechazaConDetalle(st, detail) ==
  Responde(RespuestaApi("escritura", 0, <<>>, st, {detail}))

\* The rows the create handlers have added.
Altas ==
  Cardinality({UsuarioNuevo} \cap DOMAIN usuario)
  + Cardinality({ProductoNuevo} \cap DOMAIN producto)
  + Cardinality({AlmacenNuevo} \cap DOMAIN almacen)
  + Cardinality({CategoriaNueva} \cap DOMAIN categoria_producto)

\* auth.py register: anyone registers a user, always 'usuario' and inactive.
\* The e-mail of the model's registrations is a new one.
register(nombre) ==
  /\ Altas < MaxAltas
  /\ UsuarioNuevo \notin DOMAIN usuario
  /\ EnUsuario(InsertarFila(usuario, UsuarioNuevo,
                            [nombre |-> nombre, rol |-> "usuario", activo |-> FALSE]),
               RespuestaEscritura(HTTP_201_CREATED))

\* users.py create_user
create_user(u, nombre, rol, activo) ==
  /\ Autenticado(u)
  /\ Altas < MaxAltas
  /\ UsuarioNuevo \notin DOMAIN usuario
  /\ IF ~require_admin(UsuarioActual(u)) THEN Rechaza(HTTP_403_FORBIDDEN)
     ELSE EnUsuario(InsertarFila(usuario, UsuarioNuevo,
                                 [nombre |-> nombre, rol |-> Lower(rol), activo |-> activo]),
                    RespuestaEscritura(HTTP_200_OK))

\* users.py cambiar_estado_masivo_usuarios: the rows that change are those not
\* already in the state asked for, the admin itself excepted when deactivating.
cambiar_estado_masivo_usuarios(u, ids, activo) ==
  /\ Autenticado(u)
  /\ LET admin == UsuarioActual(u)
         actualizados ==
           { id \in ids \cap DOMAIN usuario :
               /\ usuario[id].activo # activo
               /\ ~(activo = FALSE /\ id = admin.id) }
     IN  IF ~require_admin(admin) THEN Rechaza(HTTP_403_FORBIDDEN)
         ELSE EnUsuario([id \in DOMAIN usuario |->
                           IF id \in actualizados
                             THEN [usuario[id] EXCEPT !.activo = activo]
                             ELSE usuario[id]],
                        RespuestaEscritura(HTTP_200_OK))

\* users.py update_user, for a body that carries rol and activo (each optional).
update_user(u, id, rol, activo) ==
  /\ Autenticado(u)
  /\ LET is_admin == is_admin_user(UsuarioActual(u))
     IN  IF id \notin DOMAIN usuario THEN Rechaza(HTTP_404_NOT_FOUND)
         ELSE IF ~is_admin /\ id # u THEN Rechaza(HTTP_403_FORBIDDEN)
         ELSE IF TruthyStr(rol) /\ ~is_admin THEN Rechaza(HTTP_403_FORBIDDEN)
         ELSE IF activo # None /\ ~is_admin THEN Rechaza(HTTP_403_FORBIDDEN)
         ELSE EnUsuario([usuario EXCEPT
                           ![id].rol = IF TruthyStr(rol) THEN Lower(rol[1]) ELSE @,
                           ![id].activo = IF activo # None THEN activo[1] ELSE @],
                        RespuestaEscritura(HTTP_200_OK))

\* users.py delete_user
delete_user(u, id) ==
  /\ Autenticado(u)
  /\ ~EnVueloUsuario(id)
  /\ IF ~require_admin(UsuarioActual(u)) THEN Rechaza(HTTP_403_FORBIDDEN)
     ELSE IF id \notin DOMAIN usuario THEN Rechaza(HTTP_404_NOT_FOUND)
     ELSE IF \E m \in movimientos : m.id_usuario = id
       THEN RechazaConDetalle(HTTP_400_BAD_REQUEST,
              "No se puede eliminar el usuario porque tiene movimientos registrados")
     ELSE EnUsuario(BorrarFila(usuario, id), RespuestaEscritura(HTTP_200_OK))

\* products.py create_product: the product is active by default.
create_product(u, id_categoria) ==
  /\ Autenticado(u)
  /\ Altas < MaxAltas
  /\ ProductoNuevo \notin DOMAIN producto
  /\ IF ~require_admin(UsuarioActual(u)) THEN Rechaza(HTTP_403_FORBIDDEN)
     ELSE IF id_categoria \notin DOMAIN categoria_producto
       THEN Rechaza(HTTP_400_BAD_REQUEST)
     ELSE EnProducto(InsertarFila(producto, ProductoNuevo,
                                  [id_categoria |-> id_categoria, activo |-> TRUE]),
                     RespuestaEscritura(HTTP_201_CREATED))

\* products.py cambiar_estado_masivo_productos: a product that still has stock
\* is not deactivated.
cambiar_estado_masivo_productos(u, codigos, activo) ==
  /\ Autenticado(u)
  /\ LET stock_total(c) == Suma({ f \in stock : f.codigo_producto = c })
         actualizados ==
           { c \in codigos \cap DOMAIN producto :
               /\ producto[c].activo # activo
               /\ ~(activo = FALSE /\ stock_total(c) > 0) }
     IN  IF ~require_admin(UsuarioActual(u)) THEN Rechaza(HTTP_403_FORBIDDEN)
         ELSE EnProducto([c \in DOMAIN producto |->
                            IF c \in actualizados
                              THEN [producto[c] EXCEPT !.activo = activo]
                              ELSE producto[c]],
                         RespuestaEscritura(HTTP_200_OK))

\* products.py update_product, for a body that carries id_categoria and activo
\* (each optional): any authenticated user may call it.
update_product(u, id, id_categoria, activo) ==
  /\ Autenticado(u)
  /\ IF id \notin DOMAIN producto THEN Rechaza(HTTP_404_NOT_FOUND)
     ELSE IF TruthyInt(id_categoria) /\ id_categoria[1] \notin DOMAIN categoria_producto
       THEN Rechaza(HTTP_404_NOT_FOUND)
     ELSE IF activo # None /\ ~is_admin_user(UsuarioActual(u))
       THEN Rechaza(HTTP_403_FORBIDDEN)
     ELSE EnProducto([producto EXCEPT
                        ![id].id_categoria =
                           IF TruthyInt(id_categoria) THEN id_categoria[1] ELSE @,
                        ![id].activo = IF activo # None THEN activo[1] ELSE @],
                     RespuestaEscritura(HTTP_200_OK))

\* products.py delete_product: the DELETE fails on a foreign key when a
\* movement line or a stock row references the product.
delete_product(u, id) ==
  /\ Autenticado(u)
  /\ ~EnVueloProducto(id)
  /\ IF ~require_admin(UsuarioActual(u)) THEN Rechaza(HTTP_403_FORBIDDEN)
     ELSE IF id \notin DOMAIN producto THEN Rechaza(HTTP_404_NOT_FOUND)
     ELSE IF ReferenciaAProducto(id)
       THEN RechazaConDetalle(HTTP_500_INTERNAL_SERVER_ERROR,
              "Este producto tiene movimientos asociados, no se puede eliminar.")
     ELSE EnProducto(BorrarFila(producto, id), RespuestaEscritura(HTTP_200_OK))

\* warehouses.py cambiar_estado_masivo_almacenes
cambiar_estado_masivo_almacenes(u, codigos, activo) ==
  /\ Autenticado(u)
  /\ LET stock_total(c) == Suma({ f \in stock : f.codigo_almacen = c })
         actualizados ==
           { c \in codigos \cap DOMAIN almacen :
               /\ almacen[c].activo # activo
               /\ ~(activo = FALSE /\ stock_total(c) > 0) }
     IN  IF ~require_admin(UsuarioActual(u)) THEN Rechaza(HTTP_403_FORBIDDEN)
         ELSE EnAlmacen([c \in DOMAIN almacen |->
                           IF c \in actualizados
                             THEN [almacen[c] EXCEPT !.activo = activo]
                             ELSE almacen[c]],
                        RespuestaEscritura(HTTP_200_OK))

\* warehouses.py create_warehouse
create_warehouse(u, activo) ==
  /\ Autenticado(u)
  /\ Altas < MaxAltas
  /\ AlmacenNuevo \notin DOMAIN almacen
  /\ IF ~require_admin(UsuarioActual(u)) THEN Rechaza(HTTP_403_FORBIDDEN)
     ELSE EnAlmacen(InsertarFila(almacen, AlmacenNuevo, [activo |-> activo]),
                    RespuestaEscritura(HTTP_201_CREATED))

\* warehouses.py update_warehouse: a warehouse with a stock row is not deactivated.
update_warehouse(u, codigo, activo) ==
  /\ Autenticado(u)
  /\ IF ~require_admin(UsuarioActual(u)) THEN Rechaza(HTTP_403_FORBIDDEN)
     ELSE IF codigo \notin DOMAIN almacen THEN Rechaza(HTTP_404_NOT_FOUND)
     ELSE IF activo = Some(FALSE) /\ (\E f \in stock : f.codigo_almacen = codigo)
       THEN Rechaza(HTTP_403_FORBIDDEN)
     ELSE EnAlmacen([almacen EXCEPT
                       ![codigo].activo = IF activo # None THEN activo[1] ELSE @],
                    RespuestaEscritura(HTTP_200_OK))

\* warehouses.py deactivate_warehouse (DELETE): refused when a movement line
\* names the warehouse; db.commit() is outside the try, so the foreign key of
\* a stock row makes the request fail with an unhandled error (500).
deactivate_warehouse(u, codigo) ==
  /\ Autenticado(u)
  /\ ~EnVueloAlmacen(codigo)
  /\ IF ~require_admin(UsuarioActual(u)) THEN Rechaza(HTTP_403_FORBIDDEN)
     ELSE IF codigo \notin DOMAIN almacen THEN Rechaza(HTTP_404_NOT_FOUND)
     ELSE IF \E l \in movimientos_lineas : l.codigo_almacen = codigo
       THEN RechazaConDetalle(HTTP_400_BAD_REQUEST,
              "No se puede eliminar este almacen ya que tiene movimientos registrados.")
     ELSE IF ReferenciaAAlmacen(codigo) THEN Rechaza(HTTP_500_INTERNAL_SERVER_ERROR)
     ELSE EnAlmacen(BorrarFila(almacen, codigo), RespuestaEscritura(HTTP_200_OK))

\* utils/validation.py normalize_category (strip, drop accents, capitalize) on
\* the names that occur.
normalize_category(nombre) ==
  CASE nombre = " general " -> "General"
    [] nombre = "liquidos" -> "Liquidos"
    [] OTHER -> nombre

NombreEnUso(nombre, excepto) ==
  \E c \in DOMAIN categoria_producto \ excepto : categoria_producto[c].nombre = nombre

\* product_categories.py create_category: the unique index on nombre raises
\* IntegrityError.
create_category(u, nombre) ==
  /\ Autenticado(u)
  /\ Altas < MaxAltas
  /\ CategoriaNueva \notin DOMAIN categoria_producto
  /\ IF ~require_admin(UsuarioActual(u)) THEN Rechaza(HTTP_403_FORBIDDEN)
     ELSE IF NombreEnUso(normalize_category(nombre), {}) THEN Rechaza(HTTP_400_BAD_REQUEST)
     ELSE EnCategoria(InsertarFila(categoria_producto, CategoriaNueva,
                                   [nombre |-> normalize_category(nombre)]),
                      RespuestaEscritura(HTTP_201_CREATED))

\* product_categories.py update_category
update_category(u, id, nombre) ==
  /\ Autenticado(u)
  /\ IF ~require_admin(UsuarioActual(u)) THEN Rechaza(HTTP_403_FORBIDDEN)
     ELSE IF id \notin DOMAIN categoria_producto THEN Rechaza(HTTP_404_NOT_FOUND)
     ELSE IF NombreEnUso(normalize_category(nombre), {id})
       THEN Rechaza(HTTP_400_BAD_REQUEST)
     ELSE EnCategoria([categoria_producto EXCEPT
                         ![id].nombre = normalize_category(nombre)],
                      RespuestaEscritura(HTTP_200_OK))

\* product_categories.py delete_category
delete_category(u, id) ==
  /\ Autenticado(u)
  /\ IF ~require_admin(UsuarioActual(u)) THEN Rechaza(HTTP_403_FORBIDDEN)
     ELSE IF id \notin DOMAIN categoria_producto THEN Rechaza(HTTP_404_NOT_FOUND)
     ELSE IF \E c \in DOMAIN producto : producto[c].id_categoria = id
       THEN Rechaza(HTTP_400_BAD_REQUEST)
     ELSE EnCategoria(BorrarFila(categoria_producto, id), RespuestaEscritura(HTTP_200_OK))

\* ------------------------------------------------------------ specification

Handler(s) ==
  \/ \E p \in Peticiones : Begin(s, p)
  \/ FlushHeader(s)
  \/ SelectAlmacenes(s)
  \/ SelectProductos(s)
  \/ InsertLineas(s)
  \/ Commit(s)
  \/ ReadUser(s)
  \/ ReadLines(s)
  \/ Emit(s)
  \/ BroadcastNext(s)
  \/ BroadcastSend(s)
  \/ BroadcastSendFails(s)
  \/ Return(s)
  \/ Finish(s)

Faults(s) ==
  \/ \E cls \in Fallos : FalloTransaccion(s, cls)
  \/ FalloLectura(s)

Clients(w) ==
  \/ WsConnect(w)
  \/ WsSlow(w)
  \/ WsDrain(w)
  \/ WsClientClose(w)
  \/ WsDisconnect(w)

Next ==
  \/ \E s \in Slots : Handler(s)
  \/ \E s \in Slots : Faults(s)
  \/ \E w \in Sockets : Clients(w)

Spec == Init /\ [][Next]_vars

\* The worker thread and the event loop run a request's next step if it can run
\* again and again; nothing obliges a client to connect, read or close.
LiveSpec == Spec /\ \A s \in Slots : SF_vars(Handler(s))


\* ------------------------------------- specification: the observer registry

\* Three WebSocket clients, and one submission that passes every check, so that
\* every request reaches the notification step.
SocketsWS == {"ws1", "ws2", "ws3"}

PeticionesWS == { Peticion(1, "salida", 1, Rep(1)) }

HandlerWS(s) ==
  \/ \E p \in PeticionesWS : Begin(s, p)
  \/ FlushHeader(s)
  \/ SelectAlmacenes(s)
  \/ SelectProductos(s)
  \/ InsertLineas(s)
  \/ Commit(s)
  \/ ReadUser(s)
  \/ ReadLines(s)
  \/ Emit(s)
  \/ BroadcastNext(s)
  \/ BroadcastSend(s)
  \/ BroadcastSendFails(s)
  \/ Return(s)
  \/ Finish(s)

InitWS == Inicio(Slots, SocketsWS)

NextWS ==
  \/ \E s \in Slots : HandlerWS(s)
  \/ \E w \in SocketsWS : Clients(w)

SpecWS == InitWS /\ [][NextWS]_vars


\* ------------------------------------------ specification: the read handlers

\* create_movement when no observer ever registers: the loop of broadcast ends
\* at once.
CrearMovimiento(s, peticiones) ==
  \/ \E p \in peticiones : Begin(s, p)
  \/ FlushHeader(s)
  \/ SelectAlmacenes(s)
  \/ SelectProductos(s)
  \/ InsertLineas(s)
  \/ Commit(s)
  \/ ReadUser(s)
  \/ ReadLines(s)
  \/ Emit(s)
  \/ BroadcastNext(s)
  \/ Return(s)
  \/ Finish(s)

\* Movements of user 1 and of user 2, one of them submitted by the admin.
PeticionesLecturas ==
  { Peticion(1, "entrada", 1, Rep(1)), Peticion(2, "salida", 2, Rep(1)),
    Peticion(1, "salida", 2, Rep(1)) }

\* The callers and the keys the read handlers are called with.
Llamantes == {1, 2}

ClavesUsuario == {1, 2, 3}

ClavesMovimiento == 1..(MaxMovs + 1)

Lecturas(u) ==
  \/ \E usuario_id \in {None, Some(1), Some(2)} : get_movements(u, usuario_id)
  \/ get_movements_last_year(u)
  \/ \E id_mov \in ClavesMovimiento : get_movement(u, id_mov)
  \/ \E id_mov \in ClavesMovimiento : get_movement_lines(u, id_mov)
  \/ contar_movimientos_por_tipo(u)
  \/ get_stock_history(u)
  \/ get_product_stock_history(u, 1)
  \/ get_warehouse_stock_history(u, 1)
  \/ get_warehouse_and_product_stock_history(u, 1, 1)
  \/ \E id \in ClavesUsuario : get_user(u, id)

NextLecturas ==
  \/ \E s \in Slots : CrearMovimiento(s, PeticionesLecturas)
  \/ \E u \in Llamantes : Lecturas(u)

SpecLecturas == Init /\ [][NextLecturas]_vars


\* ----------------------------------------- specification: the write handlers

\* A movement of user 2 on warehouse 1 and product 1.
PeticionesAdmin == { Peticion(2, "entrada", 2, Rep(1)) }

Booleanos == {TRUE, FALSE}

Escrituras(u) ==
  \/ create_user(u, "Eva", "usuario", FALSE)
  \/ \E activo \in Booleanos : cambiar_estado_masivo_usuarios(u, {1, 2}, activo)
  \/ \E rol \in {None, Some("Usuario")} : \E activo \in {None, Some(FALSE), Some(TRUE)} :
       update_user(u, 2, rol, activo)
  \/ delete_user(u, 2)
  \/ create_product(u, 1)
  \/ \E activo \in Booleanos : cambiar_estado_masivo_productos(u, {1, 4}, activo)
  \/ \E activo \in {None, Some(FALSE), Some(TRUE)} : update_product(u, 1, None, activo)
  \/ \E id \in {1, 4} : delete_product(u, id)
  \/ \E activo \in Booleanos : cambiar_estado_masivo_almacenes(u, {1, 4}, activo)
  \/ create_warehouse(u, TRUE)
  \/ \E activo \in {None, Some(FALSE), Some(TRUE)} : update_warehouse(u, 1, activo)
  \/ \E codigo \in {1, 4} : deactivate_warehouse(u, codigo)
  \/ create_category(u, "liquidos")
  \/ \E nombre \in {" general ", "Vacia"} : update_category(u, 2, nombre)
  \/ \E id \in {1, 2} : delete_category(u, id)

\* The write handlers called by the admin (user 1), next to a submission of
\* user 2 and a self-registration.
NextAdmin ==
  \/ \E s \in Slots : CrearMovimiento(s, PeticionesAdmin)
  \/ register("Eva")
  \/ Escrituras(1)

SpecAdmin == Init /\ [][NextAdmin]_vars


\* -------------------------------------- specification: concurrent submissions

\* Two threadpool workers, each with its own session (get_db), serving two
\* valid submissions with different lines; the connection of a transaction may
\* be lost at any of its statements.
SlotsConcurrentes == {"r1", "r2"}

PeticionesConcurrentes ==
  { Peticion(2, "entrada", 2, Rep(2)), Peticion(1, "salida", 2, ConLote) }

NextConcurrente ==
  \/ \E s \in SlotsConcurrentes : CrearMovimiento(s, PeticionesConcurrentes)
  \/ \E s \in SlotsConcurrentes : FalloTransaccion(s, "OperationalError")

SpecConcurrente == Inicio(SlotsConcurrentes, Sockets) /\ [][NextConcurrente]_vars


\* ------------------------------------- specification: the state changes

\* The handlers that activate and deactivate products and warehouses, called
\* by the admin on the products and warehouses without stock (1) and in stock
\* (4), next to a submission of user 2.
CambiosDeEstado(u) ==
  \/ \E activo \in Booleanos : cambiar_estado_masivo_productos(u, {1, 4}, activo)
  \/ \E codigo \in {1, 4} : \E activo \in {None, Some(FALSE), Some(TRUE)} :
       update_product(u, codigo, None, activo)
  \/ \E activo \in Booleanos : cambiar_estado_masivo_almacenes(u, {1, 4}, activo)
  \/ \E codigo \in {1, 4} : \E activo \in {None, Some(FALSE), Some(TRUE)} :
       update_warehouse(u, codigo, activo)

NextEstados ==
  \/ \E s \in Slots : CrearMovimiento(s, PeticionesAdmin)
  \/ CambiosDeEstado(1)

SpecEstados == Init /\ [][NextEstados]_vars


\* ------------------------------------------ specification: the user sessions

\* The handlers by which the admin deactivates, reactivates and deletes user 2.
BajasDeUsuario(u) ==
  \/ \E activo \in Booleanos : cambiar_estado_masivo_usuarios(u, {1, 2}, activo)
  \/ \E activo \in {Some(FALSE), Some(TRUE)} : update_user(u, 2, None, activo)
  \/ delete_user(u, 2)

\* Users 1 and 2 hold access tokens and refresh cookies issued when they logged
\* in: they submit movements, call the read handlers and refresh their tokens
\* while the admin changes the state of user 2.
NextSesion ==
  \/ \E s \in Slots : CrearMovimiento(s, PeticionesLecturas)
  \/ \E u \in Llamantes : Lecturas(u)
  \/ \E u \in Llamantes : refresh_token(u)
  \/ BajasDeUsuario(1)

SpecSesion == Init /\ [][NextSesion]_vars


\* ------------------------------------- specification: the non-admin callers

\* What callers who are not admins can do: user 2 (rol 'usuario') submits a
\* movement and calls every write handler, update_user on every record and
\* with every field; anyone registers. User 3 is the self-registered one.
NextUsuario ==
  \/ \E s \in Slots : CrearMovimiento(s, PeticionesAdmin)
  \/ register("Eva")
  \/ \E u \in {2, 3} : Escrituras(u)
  \/ \E u \in {2, 3} : \E id \in ClavesUsuario : \E rol \in {None, Some(""), Some("admin")} :
       \E activo \in {None, Some(FALSE), Some(TRUE)} : update_user(u, id, rol, activo)

SpecUsuario == Init /\ [][NextUsuario]_vars


\* ================================================================= claims

\* The committed rows that belong to the submission of request s.
FilasCabecera(s) ==
  { m \in movimientos : new_movement[s].id_mov # None /\ m.id_mov = new_movement[s].id_mov[1] }

FilasLineas(s) ==
  { l \in movimientos_lineas :
      new_movement[s].id_mov # None /\ l.id_mov = new_movement[s].id_mov[1] }

\* Nothing of the submission of request s is visible: the committed journal is
\* the one the request found, and holds no row under the id it generated.
NadaPersistido(s) ==
  /\ movimientos = journal0[s].movimientos
  /\ movimientos_lineas = journal0[s].lineas
  /\ FilasCabecera(s) = {}
  /\ FilasLineas(s) = {}

\* The submission of request s is committed: its header and nothing else was added.
Persistido(s) ==
  /\ new_movement[s].id_mov # None
  /\ FilasCabecera(s) =
       { [id_mov |-> new_movement[s].id_mov[1], tipo |-> movement_data[s].tipo,
          id_usuario |-> movement_data[s].id_usuario] }
  /\ movimientos = journal0[s].movimientos \cup FilasCabecera(s)
  /\ movimientos_lineas = journal0[s].lineas \cup FilasLineas(s)
  /\ Cardinality(FilasLineas(s)) = Len(movement_data[s].lineas)

EsAdmin(s) == usuario[current_user[s].id].rol \in {"admin", "Admin", "ADMIN"}

Autorizada(s) == EsAdmin(s) \/ movement_data[s].id_usuario = current_user[s].id

EnteInactivo(tabla, codigo) == codigo \notin DOMAIN tabla \/ ~tabla[codigo].activo

ReferenciaInactiva(md) ==
  \E i \in 1..Len(md.lineas) :
    \/ EnteInactivo(almacen, md.lineas[i].codigo_almacen)
    \/ EnteInactivo(producto, md.lineas[i].codigo_producto)

CaducadaEnEntrada(md) ==
  /\ md.tipo = "entrada"
  /\ \E i \in 1..Len(md.lineas) :
       /\ md.lineas[i].fecha_cad # None
       /\ md.lineas[i].fecha_cad[1] <= today

\* A statement of the store failed while request s ran.
FalloDeAlmacenamiento(s) ==
  excepcion[s].paso \in PasosTransaccion \cup {"read_user", "read_lines"}

\* The submission passes every check of create_movement.
Valida(s) ==
  /\ Autorizada(s)
  /\ movement_data[s].id_usuario \in DOMAIN usuario
  /\ Len(movement_data[s].lineas) \in 1..MAX_LINEAS
  /\ ~CaducadaEnEntrada(movement_data[s])
  /\ ~ReferenciaInactiva(movement_data[s])

\* The InvalidInput outcome: 400 raised by a check, not by the store.
InvalidInput(r) == r.status = HTTP_400_BAD_REQUEST /\ r.detail # "Error de integridad"

\* C1: a submission with a line on an inactive or unknown warehouse or product
\* never has a header or a line visible, at any step of its request, and its
\* request ends rejected.
C1_RechazoSinEscrituras ==
  \A s \in Slots :
    (pc[s] # "idle" /\ ReferenciaInactiva(movement_data[s])) =>
      /\ NadaPersistido(s)
      /\ pc[s] = "done" => response[s].status # HTTP_201_CREATED

\* C1 witness: a request rejected by the activity check after its header was flushed.
C1_Witness ==
  \E s \in Slots :
    /\ pc[s] = "done"
    /\ ReferenciaInactiva(movement_data[s])
    /\ new_movement[s].id_mov # None
    /\ response[s].codigos # {}

\* C2: a non-admin submitting for another user gets 403 and nothing is written
\* (not even an id is drawn); an admin submitting a valid movement for another
\* user gets 201 and the movement is committed, unless the store fails.
C2_AutorizacionPorRol ==
  \A s \in Slots :
    pc[s] = "done" =>
      /\ (~EsAdmin(s) /\ movement_data[s].id_usuario # current_user[s].id) =>
           /\ response[s].status = HTTP_403_FORBIDDEN
           /\ NadaPersistido(s)
           /\ new_movement[s].id_mov = None
      /\ (/\ EsAdmin(s)
          /\ movement_data[s].id_usuario # current_user[s].id
          /\ Valida(s)
          /\ ~FalloDeAlmacenamiento(s)) =>
           /\ response[s].status = HTTP_201_CREATED
           /\ Persistido(s)

\* C2 witness: the admin's movement for user 2 is committed and answered 201.
C2_Witness ==
  \E s \in Slots :
    /\ pc[s] = "done"
    /\ EsAdmin(s)
    /\ movement_data[s].id_usuario # current_user[s].id
    /\ response[s].status = HTTP_201_CREATED
    /\ Persistido(s)

\* The stored form of a submitted lot label: the label, or the sentinel if blank.
LoteEsperado(lote) == IF lote \in {None, Some("")} THEN "SIN_LOTE" ELSE lote[1]

\* C3: once a submission is committed its lines carry the numbers 1..N, line i
\* holds the i-th submitted line, and no id_mov was ever drawn twice (rolled
\* back submissions included) nor is shared by two headers.
C3_LineasNumeradasEIdUnico ==
  /\ \A s \in Slots :
       FilasCabecera(s) # {} =>
         LET ls == movement_data[s].lineas
         IN  /\ { l.id_linea : l \in FilasLineas(s) } = 1..Len(ls)
             /\ Cardinality(FilasLineas(s)) = Len(ls)
             /\ \A l \in FilasLineas(s) :
                  /\ l.codigo_almacen = ls[l.id_linea].codigo_almacen
                  /\ l.codigo_producto = ls[l.id_linea].codigo_producto
                  /\ l.lote = LoteEsperado(ls[l.id_linea].lote)
                  /\ l.fecha_cad = ls[l.id_linea].fecha_cad
                  /\ l.cantidad = ls[l.id_linea].cantidad
  /\ \A i, j \in 1..Len(ids_emitidos) : i # j => ids_emitidos[i] # ids_emitidos[j]
  /\ \A m1, m2 \in movimientos : m1.id_mov = m2.id_mov => m1 = m2
  /\ \A m \in movimientos : \E i \in 1..Len(ids_emitidos) : ids_emitidos[i] = m.id_mov

\* C3 witness: a 100-line submission committed after an earlier one was rolled back.
C3_Witness ==
  \E s \in Slots :
    /\ pc[s] = "done"
    /\ response[s].status = HTTP_201_CREATED
    /\ Len(movement_data[s].lineas) = MAX_LINEAS
    /\ Len(ids_emitidos) = 2
    /\ Cardinality(movimientos) = 1

\* C4 as stated: 0 lines and 101 lines always yield InvalidInput, and 100 lines
\* passing every other check are committed.
C4_Original ==
  \A s \in Slots :
    pc[s] = "done" =>
      /\ Len(movement_data[s].lineas) = 0 => InvalidInput(response[s])
      /\ Len(movement_data[s].lineas) = MAX_LINEAS + 1 => InvalidInput(response[s])
      /\ (Len(movement_data[s].lineas) = MAX_LINEAS /\ Valida(s)
            /\ ~FalloDeAlmacenamiento(s)) =>
           (response[s].status = HTTP_201_CREATED /\ Persistido(s))

\* C4 amended: 0 lines and 101 lines yield InvalidInput whenever the requester
\* passes the authorization check (a non-admin submitting for another user gets
\* 403 first); 100 lines passing every other check are committed unless the
\* store fails.
C4_LimitesDeLineas ==
  \A s \in Slots :
    pc[s] = "done" =>
      /\ (Autorizada(s) /\ Len(movement_data[s].lineas) = 0) =>
           (InvalidInput(response[s]) /\ NadaPersistido(s))
      /\ (Autorizada(s) /\ Len(movement_data[s].lineas) = MAX_LINEAS + 1) =>
           (InvalidInput(response[s]) /\ NadaPersistido(s))
      /\ (~Autorizada(s) /\ Len(movement_data[s].lineas) \in {0, MAX_LINEAS + 1}) =>
           response[s].status = HTTP_403_FORBIDDEN
      /\ (Len(movement_data[s].lineas) = MAX_LINEAS /\ Valida(s)
            /\ ~FalloDeAlmacenamiento(s)) =>
           (response[s].status = HTTP_201_CREATED /\ Persistido(s))

\* C4 witness: 101 lines rejected while a 100-line movement sits committed.
C4_Witness ==
  \E s \in Slots :
    /\ pc[s] = "done"
    /\ Autorizada(s)
    /\ Len(movement_data[s].lineas) = MAX_LINEAS + 1
    /\ InvalidInput(response[s])
    /\ \E m \in movimientos :
         Cardinality({ l \in movimientos_lineas : l.id_mov = m.id_mov }) = MAX_LINEAS

RechazoPorCaducidad(r) ==
  r.status = HTTP_400_BAD_REQUEST /\ r.detail = "fecha de caducidad vencida o del dia actual"

\* C5: a submission that reaches the expiration check (authorized, not empty) is
\* rejected by it exactly when it is inbound and some line has an expiration
\* date on or before today.
C5_PoliticaDeCaducidad ==
  \A s \in Slots :
    (pc[s] = "done" /\ Autorizada(s) /\ movement_data[s].lineas # <<>>) =>
      (RechazoPorCaducidad(response[s]) <=> CaducadaEnEntrada(movement_data[s]))

\* C5 witness: an inbound line dated today is rejected.
C5_Witness ==
  \E s \in Slots :
    /\ pc[s] = "done"
    /\ movement_data[s].tipo = "entrada"
    /\ \E i \in 1..Len(movement_data[s].lineas) :
         movement_data[s].lineas[i].fecha_cad = Some(today)
    /\ RechazoPorCaducidad(response[s])

\* C6: after a constraint violation or a connectivity failure at any step of the
\* write transaction, the transaction is rolled back and no header and no line
\* of the submission is visible.
C6_FalloRevierteTodo ==
  \A s \in Slots :
    (/\ pc[s] = "done"
     /\ excepcion[s].cls \in ErroresSQLAlchemy
     /\ excepcion[s].paso \in PasosTransaccion) =>
      /\ session[s] = SesionVacia
      /\ NadaPersistido(s)
      /\ response[s].status # HTTP_201_CREATED

\* C6 witness: the connection is lost at COMMIT, header and lines already flushed.
C6_Witness ==
  \E s \in Slots :
    /\ pc[s] = "done"
    /\ excepcion[s] = [cls |-> "OperationalError", paso |-> "commit"]
    /\ new_movement[s].id_mov # None
    /\ NadaPersistido(s)

\* C7 as stated: a connectivity failure in the write transaction is answered 500,
\* a constraint violation 400.
C7_ConectividadEs500 ==
  \A s \in Slots :
    (pc[s] = "done" /\ excepcion[s].paso \in PasosTransaccion) =>
      /\ excepcion[s].cls = "OperationalError" =>
           response[s].status = HTTP_500_INTERNAL_SERVER_ERROR
      /\ excepcion[s].cls = "IntegrityError" =>
           response[s].status = HTTP_400_BAD_REQUEST

\* C8 as stated: every broadcast is for a committed movement, with its id and
\* type; no movement is broadcast twice; and every request that committed its
\* movement has triggered the broadcast by the time it ends.
C8_UnaDifusionPorCommit ==
  /\ \A k \in 1..Len(broadcast_log) :
       \E m \in movimientos :
         m.id_mov = broadcast_log[k].id_mov /\ m.tipo = broadcast_log[k].tipo
  /\ \A j, k \in 1..Len(broadcast_log) :
       j # k => broadcast_log[j].id_mov # broadcast_log[k].id_mov
  /\ \A s \in Slots :
       (pc[s] = "done" /\ FilasCabecera(s) # {}) =>
         \E k \in 1..Len(broadcast_log) :
           broadcast_log[k].id_mov = new_movement[s].id_mov[1]

\* C9: when the broadcast raises after the commit, the header and the lines stay
\* committed as written and the caller receives the 201 response of the movement.
C9_FalloDeDifusionAbsorbido ==
  \A s \in Slots :
    (pc[s] \in {"return", "done"} /\ excepcion[s].cls = "WebSocketDisconnect") =>
      /\ Persistido(s)
      /\ pc[s] = "done" =>
           /\ response[s].status = HTTP_201_CREATED
           /\ response[s].body # None
           /\ response[s].body[1].id_mov = new_movement[s].id_mov[1]
           /\ response[s].body[1].lineas = FilasLineas(s)

\* C9 witness: a request answered 201 although its broadcast raised.
C9_Witness ==
  \E s \in Slots :
    /\ pc[s] = "done"
    /\ excepcion[s].cls = "WebSocketDisconnect"
    /\ response[s].status = HTTP_201_CREATED

\* C10 as stated: the response does not wait on delivery, so once the broadcast
\* is triggered the caller is answered whatever the observers do.
C10_RespuestaSinEsperar ==
  \A s \in Slots : (pc[s] = "emit") ~> (pc[s] = "done")

\* The requested codes of a table that are unknown or inactive.
Ofensivos(tabla, codigos) == { c \in codigos : EnteInactivo(tabla, c) }

AlmacenesPedidos(md) == { md.lineas[i].codigo_almacen : i \in 1..Len(md.lineas) }

ProductosPedidos(md) == { md.lineas[i].codigo_producto : i \in 1..Len(md.lineas) }

\* The header of request s was flushed and no statement of the store failed.
LlegoALasConsultas(s) ==
  /\ new_movement[s].id_mov # None
  /\ excepcion[s].cls \notin Fallos

\* C18: the checks before the transaction apply in the order authorization,
\* non-empty lines, expiration policy, cardinality bound: a request that fails
\* one of them ends at once with the rejection of the first check it fails.
C18_OrdenDeValidacion ==
  \A s \in Slots :
    pc[s] # "idle" =>
      LET md == movement_data[s]
          n  == Len(md.lineas)
      IN  /\ ~Autorizada(s) =>
               /\ pc[s] = "done"
               /\ response[s].status = HTTP_403_FORBIDDEN
          /\ (Autorizada(s) /\ n = 0) =>
               /\ pc[s] = "done"
               /\ response[s].status = HTTP_400_BAD_REQUEST
               /\ response[s].detail = "El movimiento debe contener al menos una linea."
          /\ (Autorizada(s) /\ n > 0 /\ CaducadaEnEntrada(md)) =>
               /\ pc[s] = "done"
               /\ response[s].status = HTTP_400_BAD_REQUEST
               /\ response[s].detail = "fecha de caducidad vencida o del dia actual"
          /\ (Autorizada(s) /\ n > MAX_LINEAS /\ ~CaducadaEnEntrada(md)) =>
               /\ pc[s] = "done"
               /\ response[s].status = HTTP_400_BAD_REQUEST
               /\ response[s].detail = "El numero maximo de lineas permitidas es 100."

\* An inbound submission of 101 lines, one of them expired, rejected for the
\* expiration.
C18_Witness ==
  \E s \in Slots :
    /\ pc[s] = "done"
    /\ Len(movement_data[s].lineas) = MAX_LINEAS + 1
    /\ CaducadaEnEntrada(movement_data[s])
    /\ response[s].detail = "fecha de caducidad vencida o del dia actual"

\* C20: the referential rejection names exactly the offending codes, each once:
\* the requested warehouses that are not active if there is any, otherwise the
\* requested products that are not active.
C20_CodigosDelRechazo ==
  \A s \in Slots :
    LET md == movement_data[s]
        almacenes == Ofensivos(almacen, AlmacenesPedidos(md))
        productos == Ofensivos(producto, ProductosPedidos(md))
    IN  /\ (LlegoALasConsultas(s) /\ pc[s] # "select_almacenes" /\ almacenes # {}) =>
             /\ pc[s] = "done"
             /\ response[s].status = HTTP_400_BAD_REQUEST
             /\ response[s].detail = "Los siguientes almacenes no existen"
             /\ response[s].codigos = almacenes
        /\ (/\ LlegoALasConsultas(s)
            /\ pc[s] \notin {"select_almacenes", "select_productos"}
            /\ almacenes = {}
            /\ productos # {}) =>
             /\ pc[s] = "done"
             /\ response[s].status = HTTP_400_BAD_REQUEST
             /\ response[s].detail = "Los siguientes productos no existen"
             /\ response[s].codigos = productos

\* Warehouses 2 and 3 named, each once, for lines that also name products 2 and 3.
C20_Witness ==
  \E s \in Slots :
    /\ pc[s] = "done"
    /\ response[s].detail = "Los siguientes almacenes no existen"
    /\ response[s].codigos = {2, 3}
    /\ Len(movement_data[s].lineas) = 4
    /\ Ofensivos(producto, ProductosPedidos(movement_data[s])) = {2, 3}

\* The observers in the registry.
Registrados == SetOf(active_connections)

\* C11: when a broadcast over a registry that did not change ends, every
\* registered observer whose connection is open has been delivered the message,
\* whether or not the delivery to another observer failed.
C11_FalloAislado ==
  \A s \in DOMAIN pc :
    (pc[s] = "return" /\ ~difusion[s].mutado) =>
      \A w \in Registrados : sock[w] = "open" => w \in difusion[s].entregados

\* C12: a broadcast that has made a delivery does not raise on an observer that
\* disconnected while the broadcast was in flight: it goes on to the end of the
\* registry.
C12_DifusionToleraDesconexion ==
  \A s \in DOMAIN pc :
    (/\ pc[s] = "return"
     /\ difusion[s].entregados # {}
     /\ connection[s] # None
     /\ connection[s][1] \in difusion[s].desconectados) =>
      excepcion[s].cls # "WebSocketDisconnect"

\* An observer is in the registry from the moment its session begins until the
\* moment it ends.
RegistroFiel == \A w \in DOMAIN sock : sock[w] = "none" <=> w \notin Registrados

\* A send that completes is a send to a registered observer.
EntregaSoloARegistrados ==
  \A s \in DOMAIN pc :
    (pc[s] = "bc_send" /\ pc'[s] = "bc_next") =>
      /\ connection[s][1] \in Registrados
      /\ sock[connection[s][1]] # "none"

\* A step that unregisters an observer leaves every request where it was.
BajaNoCancela ==
  (\E w \in Registrados : w \notin SetOf(active_connections')) =>
    /\ Len(active_connections') = Len(active_connections) - 1
    /\ UNCHANGED reqvars

\* C13: register adds the observer to the active set and unregister removes it;
\* an observer whose session ended is not in the active set and no send to it
\* completes, and unregistering does not cancel a broadcast in flight.
C13_RegistroYBaja == [] RegistroFiel /\ [][EntregaSoloARegistrados /\ BajaNoCancela]_vars

\* A broadcast in flight, the other observer registered, and the session of an
\* observer that disconnected during the broadcast ended.
C13_Witness ==
  \E s \in DOMAIN pc : \E w \in DOMAIN sock :
    /\ EnDifusion(s)
    /\ w \in difusion[s].desconectados
    /\ sock[w] = "none"
    /\ w \notin Registrados
    /\ Registrados # {}

\* C14: the observer whose delivery failed is no longer in the active set when
\* the broadcast has ended.
C14_FalloDaDeBaja ==
  \A s \in DOMAIN pc :
    (pc[s] = "return" /\ excepcion[s].cls = "WebSocketDisconnect") =>
      connection[s][1] \notin Registrados

\* The handlers that return data of movements.
LecturasDeMovimientos ==
  {"get_movements", "get_movements_last_year", "get_movement", "get_movement_lines",
   "contar_movimientos_por_tipo", "get_stock_history", "get_product_stock_history",
   "get_warehouse_stock_history", "get_warehouse_and_product_stock_history"}

RolAdmin(u) == usuario[u].rol \in {"admin", "Admin", "ADMIN"}

\* C15: what a read handler returns to a caller who is not an admin is data of
\* movements that caller owns.
C15_SoloMovimientosPropios ==
  (/\ respuesta_api.op \in LecturasDeMovimientos
   /\ ~RolAdmin(respuesta_api.caller)) =>
    \A id \in respuesta_api.body :
      \E m \in movimientos : m.id_mov = id /\ m.id_usuario = respuesta_api.caller

\* C17: get_user answers a regular user with their own record and refuses them
\* only the records of others; it answers an admin with any record.
C17_GetUserPropio ==
  respuesta_api.op = "get_user" =>
    LET u  == respuesta_api.caller
        id == respuesta_api.arg[1]
    IN  /\ (~RolAdmin(u) /\ id = u) =>
             /\ respuesta_api.status = HTTP_200_OK
             /\ respuesta_api.body = {u}
        /\ (~RolAdmin(u) /\ id # u) =>
             respuesta_api.status \in {HTTP_403_FORBIDDEN, HTTP_404_NOT_FOUND}
        /\ (RolAdmin(u) /\ id \in DOMAIN usuario) =>
             /\ respuesta_api.status = HTTP_200_OK
             /\ respuesta_api.body = {id}

\* ----------------------------------------------------------------------------
\* C16: a committed movement and its lines are never changed or removed: over
\* every step of the movement, user, product, warehouse and category
\* operations, each row of movimientos stays as it is (same id, type, owner),
\* no other row takes its id, and its lines stay the same set.
LineasDe(lineas, id_mov) == { l \in lineas : l.id_mov = id_mov }

MovimientoIntacto(m) ==
  /\ m \in movimientos'
  /\ \A n \in movimientos' : n.id_mov = m.id_mov => n = m
  /\ LineasDe(movimientos_lineas', m.id_mov) = LineasDe(movimientos_lineas, m.id_mov)

C16_JournalInmutable == [][\A m \in movimientos : MovimientoIntacto(m)]_vars

\* Two movements are committed, the product and the warehouse of their lines
\* have been deactivated, and delete_user has just been refused because of
\* the movements.
C16_Witness ==
  /\ Cardinality(movimientos) = 2
  /\ \A m \in movimientos : LineasDe(movimientos_lineas, m.id_mov) # {}
  /\ respuesta_api.status = HTTP_400_BAD_REQUEST
  /\ respuesta_api.body =
       {"No se puede eliminar el usuario porque tiene movimientos registrados"}
  /\ \A l \in movimientos_lineas :
       /\ l.codigo_producto \in DOMAIN producto
       /\ l.codigo_almacen \in DOMAIN almacen
       /\ ~producto[l.codigo_producto].activo
       /\ ~almacen[l.codigo_almacen].activo

\* ----------------------------------------------------------------------------
\* C19: no movement commits with a line whose product or warehouse is inactive
\* at the moment of the COMMIT, whatever deactivation runs concurrently.
ActivosAlCommit(s) ==
  \A l \in session[s].lineas :
    /\ l.codigo_producto \in DOMAIN producto
    /\ producto[l.codigo_producto].activo
    /\ l.codigo_almacen \in DOMAIN almacen
    /\ almacen[l.codigo_almacen].activo

C19_ActivosAlCommit ==
  [][\A s \in DOMAIN pc :
       (pc[s] = "commit" /\ pc'[s] = "read_user") => ActivosAlCommit(s)]_vars

\* ----------------------------------------------------------------------------
\* C21: in every state, every committed header has between 1 and 100 committed
\* lines, every committed line has its header, and a header of the request in
\* progress is visible only together with all the lines submitted with it.
C21_CabeceraConSusLineas ==
  /\ \A m \in movimientos :
       Cardinality(LineasDe(movimientos_lineas, m.id_mov)) \in 1..MAX_LINEAS
  /\ \A l \in movimientos_lineas : \E m \in movimientos : m.id_mov = l.id_mov
  /\ \A s \in DOMAIN pc :
       FilasCabecera(s) # {} =>
         { l.id_linea : l \in FilasLineas(s) } = 1..Len(movement_data[s].lineas)

\* C21 witness: a 100-line movement is committed, and a later submission has
\* failed after its header (and perhaps its lines) had been flushed.
C21_Witness ==
  \E s \in DOMAIN pc :
    /\ pc[s] = "done"
    /\ excepcion[s].paso \in {"select_almacenes", "select_productos", "insert_lineas", "commit"}
    /\ new_movement[s].id_mov = Some(2)
    /\ \E m \in movimientos :
         Cardinality(LineasDe(movimientos_lineas, m.id_mov)) = MAX_LINEAS

\* ----------------------------------------------------------------------------
\* C23: a submission that fails the authorization, non-empty, expiration or
\* cardinality check is answered at once with 400 or 403; no id is drawn for
\* it, nothing of it is written or visible, and neither its rejection nor the
\* end of its request changes the journal, the reference data, the id
\* sequence or the observer registry, or triggers a broadcast.
FallaLaValidacion(s) ==
  \/ ~Autorizada(s)
  \/ Len(movement_data[s].lineas) = 0
  \/ Len(movement_data[s].lineas) > MAX_LINEAS
  \/ CaducadaEnEntrada(movement_data[s])

RechazadaSinEfectos(s) ==
  /\ pc[s] = "done"
  /\ response[s].status \in {HTTP_400_BAD_REQUEST, HTTP_403_FORBIDDEN}
  /\ new_movement[s] = SinMovimiento
  /\ session[s] = SesionVacia
  /\ excepcion[s] = SinExcepcion
  /\ NadaPersistido(s)

PasoDeRechazo(s) ==
  \/ pc[s] = "idle" /\ pc'[s] = "done"
  \/ pc[s] = "done" /\ FallaLaValidacion(s) /\ pc'[s] = "idle"

C23_ValidacionSinEfectos ==
  /\ [](\A s \in DOMAIN pc : (pc[s] # "idle" /\ FallaLaValidacion(s)) => RechazadaSinEfectos(s))
  /\ [][\A s \in DOMAIN pc :
          PasoDeRechazo(s) => UNCHANGED <<dbvars, wsvars, broadcast_log, ids_emitidos>>]_vars

\* C23 witness: a submission of more than 100 lines is rejected while a
\* movement is committed, an observer is registered and one broadcast was made.
C23_Witness ==
  \E s \in DOMAIN pc :
    /\ pc[s] = "done"
    /\ Autorizada(s)
    /\ Len(movement_data[s].lineas) > MAX_LINEAS
    /\ response[s].status = HTTP_400_BAD_REQUEST
    /\ movimientos # {}
    /\ active_connections # <<>>
    /\ Len(broadcast_log) = 1

\* ----------------------------------------------------------------------------
\* C26: create_movement answers with an error only if nothing of the
\* submission is persisted.
C26_ErrorSoloSinPersistir ==
  \A s \in DOMAIN pc :
    (pc[s] = "done" /\ response[s].status # HTTP_201_CREATED) =>
      (FilasCabecera(s) = {} /\ FilasLineas(s) = {})

\* ----------------------------------------------------------------------------
\* C22: of concurrent valid submissions each commits on its own: the ids drawn
\* are distinct, a request past its COMMIT has its header visible whatever the
\* other request does, and the lines under its header are exactly the lines of
\* its own submission, numbered 1..N.
TrasElCommit(s) ==
  \/ pc[s] \in {"read_user", "read_lines", "emit", "bc_next", "bc_send", "return"}
  \/ pc[s] = "done" /\ excepcion[s].paso \notin PasosTransaccion

C22_SubmisionesIndependientes ==
  /\ \A s \in DOMAIN pc :
       TrasElCommit(s) =>
         LET ls == movement_data[s].lineas
         IN  /\ FilasCabecera(s) =
                  { [id_mov |-> new_movement[s].id_mov[1], tipo |-> movement_data[s].tipo,
                     id_usuario |-> movement_data[s].id_usuario] }
             /\ Cardinality(FilasLineas(s)) = Len(ls)
             /\ \A i \in 1..Len(ls) :
                  \E l \in FilasLineas(s) :
                    /\ l.id_linea = i
                    /\ l.codigo_almacen = ls[i].codigo_almacen
                    /\ l.codigo_producto = ls[i].codigo_producto
                    /\ l.lote = LoteEsperado(ls[i].lote)
                    /\ l.fecha_cad = ls[i].fecha_cad
                    /\ l.cantidad = ls[i].cantidad
  /\ \A s \in DOMAIN pc : ~TrasElCommit(s) => FilasCabecera(s) = {} /\ FilasLineas(s) = {}
  /\ \A s, t \in DOMAIN pc :
       (s # t /\ new_movement[s].id_mov # None) => new_movement[s].id_mov # new_movement[t].id_mov

\* C22 witness: two requests that both began on an empty journal have both
\* been answered 201, for different submissions.
C22_Witness ==
  \E s, t \in DOMAIN pc :
    /\ s # t
    /\ movement_data[s] # movement_data[t]
    /\ \A r \in {s, t} :
         /\ pc[r] = "done"
         /\ response[r].status = HTTP_201_CREATED
         /\ journal0[r].movimientos = {}

\* ----------------------------------------------------------------------------
\* C24: no step of a create_movement request, committed or rejected, changes a
\* row of stock, producto, almacen, categoria_producto or usuario; a step
\* removes nothing from the journal and adds at most one header, the one of
\* the request, together with lines of that header only.
AnadeSoloSuMovimiento(s) ==
  LET cabeceras == movimientos' \ movimientos
      lineas == movimientos_lineas' \ movimientos_lineas
  IN  /\ movimientos \subseteq movimientos'
      /\ movimientos_lineas \subseteq movimientos_lineas'
      /\ Cardinality(cabeceras) <= 1
      /\ (cabeceras = {}) <=> (lineas = {})
      /\ \A m \in cabeceras :
           /\ m.id_mov = new_movement[s].id_mov[1]
           /\ m.tipo = movement_data[s].tipo
           /\ m.id_usuario = movement_data[s].id_usuario
      /\ \A l \in lineas : l.id_mov = new_movement[s].id_mov[1]

C24_SoloAnadeElMovimiento ==
  [][\A s \in DOMAIN pc :
       pc'[s] # pc[s] =>
         /\ UNCHANGED <<usuario, almacen, producto, categoria_producto, stock>>
         /\ AnadeSoloSuMovimiento(s)]_vars

\* C24 witness: an inbound movement is committed and answered 201, and stock
\* holds no row for the warehouse and product of its lines.
C24_Witness ==
  \E s \in DOMAIN pc :
    /\ pc[s] = "done"
    /\ response[s].status = HTTP_201_CREATED
    /\ movement_data[s].tipo = "entrada"
    /\ FilasLineas(s) # {}
    /\ \A l \in FilasLineas(s) :
         ~\E f \in stock : /\ f.codigo_almacen = l.codigo_almacen
                           /\ f.codigo_producto = l.codigo_producto

\* ----------------------------------------------------------------------------
\* C28: no product and no warehouse whose total stock quantity is greater than
\* zero is ever inactive.
ProductoConExistencias(c) == Suma({ f \in stock : f.codigo_producto = c }) > 0

AlmacenConExistencias(c) == Suma({ f \in stock : f.codigo_almacen = c }) > 0

C28_ConExistenciasSiempreActivo ==
  /\ \A c \in DOMAIN producto : ProductoConExistencias(c) => producto[c].activo
  /\ \A c \in DOMAIN almacen : AlmacenConExistencias(c) => almacen[c].activo

\* ----------------------------------------------------------------------------
\* C29: in every state the owner of every committed movement is an existing
\* user, and the warehouse and the product of every committed line exist.
C29_IntegridadReferencial ==
  /\ \A m \in movimientos : m.id_usuario \in DOMAIN usuario
  /\ \A l \in movimientos_lineas :
       /\ l.codigo_almacen \in DOMAIN almacen
       /\ l.codigo_producto \in DOMAIN producto
       /\ \E m \in movimientos : m.id_mov = l.id_mov

\* C29 witness: a movement is committed and the delete of the warehouse of its
\* line has just been refused.
C29_Witness ==
  /\ movimientos # {}
  /\ \A l \in movimientos_lineas : l.codigo_almacen \in DOMAIN almacen
  /\ respuesta_api.status = HTTP_400_BAD_REQUEST
  /\ respuesta_api.body =
       {"No se puede eliminar este almacen ya que tiene movimientos registrados."}

\* A submission has been refused by a foreign key: the product of its line was
\* deleted after the activity check.
C29_WitnessCarrera ==
  \E s \in DOMAIN pc :
    /\ pc[s] = "done"
    /\ excepcion[s] = [cls |-> "IntegrityError", paso |-> "insert_lineas"]
    /\ NadaPersistido(s)

\* ----------------------------------------------------------------------------
\* C25: when a broadcast has run to the end of the list, every observer that
\* was registered when it was called and stayed connected throughout has
\* received the message.
C25_NingunObservadorOmitido ==
  \A s \in DOMAIN pc :
    (pc[s] = "return" /\ excepcion[s].cls # "WebSocketDisconnect") =>
      difusion[s].pendientes = {}

\* ----------------------------------------------------------------------------
\* C27: no handler behind get_current_user answers a request of a user who is
\* deactivated or deleted when the request arrives, and no submission of such
\* a user is taken up, whatever token the request carries; the refresh
\* endpoint, which is not behind get_current_user, is the only one to answer.
UsuarioVigente(u) == u \in DOMAIN usuario /\ usuario[u].activo

C27_SinSesionTrasLaBaja ==
  [][/\ (/\ respuesta_api' # respuesta_api
         /\ respuesta_api'.caller # 0
         /\ respuesta_api'.op # "refresh_token") => UsuarioVigente(respuesta_api'.caller)
     /\ \A s \in DOMAIN pc :
          (pc[s] = "idle" /\ pc'[s] # "idle") => UsuarioVigente(current_user'[s].id)]_vars

\* C27 witness: user 2, who has a committed movement, has been deactivated and
\* has then obtained a new access token from the refresh endpoint.
C27_Witness ==
  /\ 2 \in DOMAIN usuario
  /\ ~usuario[2].activo
  /\ \E m \in movimientos : m.id_usuario = 2
  /\ respuesta_api.op = "refresh_token"
  /\ respuesta_api.caller = 2
  /\ respuesta_api.status = HTTP_200_OK

====
